---------------------------- MODULE Spec2Model ----------------------------
(***************************************************************************)
(* A model of the playback engine of melrose:                              *)
(*   - Midi.Play / Midi.PlayNote          (src/midi/device.go, 28-75)      *)
(*   - pedalEvent.Handle and Midi.handledPedalChange (device.go, 136-190)  *)
(*   - Open and Midi.SetBeatsPerMinute    (src/midi/device.go, 78-111)     *)
(*   - DeviceRegistry.Output, Input, Command and Listen (device.go,        *)
(*     242-422)                                                            *)
(*   - Listen.Play / Stop / NoteOn / NoteOff / isNoteOnCount               *)
(*     (src/unnamed/part_001)                                              *)
(*   - the Timeline behind AudioDevice.Schedule (declared only, modelled   *)
(*     from its contract)                                                  *)
(*                                                                         *)
(* Timing model.  time.Duration values are counted in units of 1/16 ms, so *)
(* that the product of a whole-note duration (a whole number of ms) with a *)
(* duration factor given in sixteenths is exact.  Computation takes no     *)
(* time and time.Sleep(d) lasts exactly d: the clock only advances (Tick)  *)
(* when no goroutine can take a step, and then to the next wake-up time.   *)
(***************************************************************************)
EXTENDS Integers, Sequences, FiniteSets, TLC

VARIABLES
    now,        \* the wall clock
    enabled,    \* Midi.enabled
    bpm,        \* Midi.bpm
    bpmSet,     \* the last assignment of the BPM: its argument, the BPM before
    handle,     \* the *Midi the callers hold: "none" yet, "opened" by Open,
                \* "zero" (made with new(Midi)), or the "nil" of a failed Open
    fault,      \* a nil pointer was dereferenced: the program has panicked
    mutex,      \* Midi.mutex: Free, or the goroutine holding it
    inflight,   \* goroutines that are inside stream.WriteShort
    stream,     \* the messages the stream has received, in order
    callpc,     \* per Play call: "idle", "loop" (in the for loop), "done"
    callseq,    \* per Play call: its argument seq.Notes
    gi,         \* per Play call: index of the group being played
    whole,      \* per Play call: its local wholeNoteDuration
    beginAt,    \* per Play call: the time it was called
    endingAt,   \* per Play call: the time it returned
    starts,     \* per Play call: the time each group was started
    tasks,      \* per Play call: the goroutines of the current group
    pending,    \* Timeline: scheduled events not yet fired, in firing order
    submitted,  \* Timeline: number of Schedule calls so far
    handling,   \* Timeline: the event whose Handle is running, or NoEvent
    fired,      \* Timeline: the events fired so far with their firing time
    pedalLog,   \* the calls of handledPedalChange and what they returned
    regMutex,   \* DeviceRegistry.mutex: the caller holding it exclusively, or 0
    out,        \* DeviceRegistry.out: the cached OutputDevice of each id
    devices,    \* every OutputDevice created so far, in order of creation
    streamsOut, \* streamRegistry: the cached output stream of each id
    opened,     \* the ids of the hardware output streams opened, in order
    regpc,      \* per caller of Output: where it is
    regid,      \* per caller of Output: its argument id
    regtmp,     \* per caller of Output: its locals midiOut and od
    regret,     \* per caller of Output: what it returned
    inp,        \* DeviceRegistry.in: the cached InputDevice of each id
    inDevices,  \* every InputDevice created so far, in order of creation
    streamsIn,  \* streamRegistry: the cached input stream of each id
    regop,      \* per caller: the registry operation it is running
    regout,     \* per caller: how its registry operation ended
    defaultOutputID, \* DeviceRegistry.defaultOutputID
    defaultInputID,  \* DeviceRegistry.defaultInputID
    isRunning,  \* Listen.isRunning
    told,       \* the startOrStop values the device's Listen was called with
    inputCapability, \* what HasInputCapability answered to the last Play
    wake,       \* per caller of Listen: the end of its time.Sleep, or -1
    unheard,    \* the events a read loop has read with nobody subscribed
    lmutex,     \* Listen.mutex: the goroutine holding it exclusively, or 0
    notesOn,    \* Listen.notesOn
    noteChangeCount, \* Listen.noteChangeCount
    slot,       \* the variable l.variableName of the variable store
    lpc,        \* per input goroutine: where it is in NoteOn
    llocal,     \* per input goroutine: nr and countCheck of its NoteOn
    conds,      \* the conditions NoteOn has handed to Evaluate
    history,    \* the NoteOn and NoteOff calls in the order they took effect
    loopRunning, \* per Loop: it is Running
    chains,     \* per Loop: the planning chains that are armed for it
    loopCalls,  \* the StartLoop and EndLoop calls of begin and end, in order
    content,    \* per Loop: the value now bound to the variable it plays
    bars,       \* per bar planned so far: what each Loop plays in it
    closepc,    \* DeviceRegistry.Close: where it is
    toStop,     \* Close: the ids of d.in its loop has yet to visit
    released,   \* the cached streams that were released
    terminated, \* portmidi.Terminate was called
    echo,       \* per Play call: its argument echo
    echoed,     \* per Play call: what it has printed
    evalRunning, \* play of the DSL is being evaluated
    evalArgs,   \* play: its arguments playables
    evalAt,     \* play: the number of arguments its loop has been through
    evalBpm,    \* play: what ctx.Control().BPM() returns
    evalBegan,  \* play: the time it was called
    evalMoment, \* play: its local moment
    played,     \* play: its calls of the device's Play, in order
    warned,     \* play: the arguments it has warned of, in order
    walk        \* per caller: the keys of a cache map its range loop has
                \* yet to produce (left) and has produced (seen)

playVars == <<enabled, mutex, callpc, callseq, gi, whole, beginAt,
              endingAt, starts, tasks>>
bpmVars == <<bpm, bpmSet>>
openVars == <<handle, fault>>
timelineVars == <<pending, submitted, handling, fired, pedalLog>>
\* the state of the components an action of the playback engine leaves alone
captureVars == <<inputCapability, wake, unheard>>
accessVars == <<inp, inDevices, streamsIn, regop, regout, defaultOutputID,
                defaultInputID, isRunning, told, captureVars>>
registryVars == <<regMutex, out, devices, streamsOut, opened, regpc, regid,
                  regtmp, regret, accessVars>>
listenVars == <<lmutex, notesOn, noteChangeCount, slot, lpc, llocal, conds,
                history>>
loopVars == <<loopRunning, chains, loopCalls, content, bars>>
closeVars == <<closepc, toStop, released, terminated>>
echoVars == <<echo, echoed>>
evalVars == <<evalRunning, evalArgs, evalAt, evalBpm, evalBegan,
              evalMoment, played, warned>>
\* the state of the DSL, of the closing of the registry and of the echo
aboveVars == <<loopVars, closeVars, echoVars, evalVars, walk>>
elsewhere == <<openVars, registryVars, listenVars, aboveVars>>
engineVars == <<now, inflight, stream, playVars, bpmVars, timelineVars,
                openVars, aboveVars>>
\* the state of the devices
belowVars == <<now, inflight, stream, playVars, bpmVars, timelineVars,
               openVars, registryVars, listenVars, closeVars, echoVars,
               evalVars, walk>>
vars == <<engineVars, registryVars, listenVars>>

-----------------------------------------------------------------------------
(* Bounds of the model *)

\* number of times the device's Listen is called
MaxListenCalls == 3
\* longest sequence (number of groups) handed to Play
MaxGroups == 2
\* number of pedal changes requested
MaxPedalChanges == 2
\* number of NoteOn and NoteOff calls the Listen receives
MaxNoteEvents == 4
\* StartLoop and EndLoop calls and warnings of begin and end, at most
MaxLoopCalls == 3
\* bars planned, at most
MaxBars == 2
\* arguments of a play of the DSL, at most
MaxPlayables == 3
\* seconds that pass before play is called, at most
MaxPauses == 1

-----------------------------------------------------------------------------
(* Program constants *)

noteOn == 144
noteOff == 128
controlChange == 176
sustainPedal == 64
\* time.Millisecond, in clock units
Millisecond == 16
\* the bpm set by Open
DefaultBPM == 120

Max(S) == CHOOSE x \in S : \A y \in S : y <= x
Min(S) == CHOOSE x \in S : \A y \in S : x <= y

RECURSIVE SumSeq(_)
SumSeq(s) == IF s = <<>> THEN 0 ELSE Head(s) + SumSeq(Tail(s))

-----------------------------------------------------------------------------
(* Notes, groups and sequences (melrose.Note, melrose.Sequence) *)

\* A note: its MIDI number, its duration factor in sixteenths of a whole
\* note, whether it is a rest, and its pedal marker.
Note(m, f, r, p) == [midi |-> m, f16 |-> f, rest |-> r, pedal |-> p]
Pitched(m, f) == Note(m, f, FALSE, "none")
Rest(f) == Note(0, f, TRUE, "none")
Pedal(p) == Note(0, 16, FALSE, p)

IsRest(n) == n.rest
MIDI(n) == n.midi
IsPedalUp(n) == n.pedal = "up"
IsPedalDown(n) == n.pedal = "down"
IsPedalUpDown(n) == n.pedal = "updown"

\* The groups the sequences handed to Play are built from.
Groups ==
    { <<Pitched(60, 16), Pitched(64, 8)>>,
      <<Rest(8), Pitched(62, 4)>> }

RECURSIVE SeqsUpTo(_, _)
SeqsUpTo(S, n) ==
    IF n = 0 THEN { <<>> }
    ELSE LET shorter == SeqsUpTo(S, n - 1)
         IN  shorter \cup { Append(s, x) : s \in shorter, x \in S }

Sequences == SeqsUpTo(Groups, MaxGroups)
\* The sequences of a second, shorter Play call.
ShortSequences == SeqsUpTo(Groups, 1)
MaxGroupSize == Max({ Len(g) : g \in Groups })

\* The concurrent callers of Play.
Calls == {1, 2}

Free == <<0, 0, 0>>
TimelineTask == <<0, 0, 1>>
NoEvent == [at |-> -1]

-----------------------------------------------------------------------------
(* Midi.Play and Midi.PlayNote *)

\* math.Round(x / y) for positive integers: half rounds away from zero.
Round(x, y) == (2 * x + y) \div (2 * y)

\* A whole-note duration that drops the fraction of a millisecond.
wholeNoteDurationTruncated(b) == ((4 * 60 * 1000) \div b) * Millisecond

\* device.go line 32
wholeNoteDuration(b) == Round(4 * 60 * 1000, b) * Millisecond

\* A duration that ignores the duration factor of the note.
actualDurationOfWhole(w, n) == w

\* device.go line 57; DurationFactor() is n.f16 / 16
actualDuration(w, n) == (w * n.f16) \div 16

\* The notes of a group played by plain calls, one after the other.
MayStartInTurn(c, i) == \A j \in 1..(i - 1) : tasks[c][j].pc = "done"

\* The goroutine of a note runs beside the others of its group (line 44).
MayStart(c, i) == TRUE

\* A Note-Off written with the status of a Note-On.
NoteOffMessageAsOn(n) == <<noteOn, MIDI(n), 100>>

\* The messages of lines 66 and 73.
NoteOnMessage(n) == <<noteOn, MIDI(n), 100>>
NoteOffMessage(n) == <<noteOff, MIDI(n), 100>>

Lock(t) == mutex = Free /\ mutex' = t
Unlock(t) == mutex' = Free

\* stream.WriteShort(msg) by goroutine by: the stream has received msg.
WriteShort(msg, by) ==
    Append(stream, [status |-> msg[1], data1 |-> msg[2], data2 |-> msg[3],
                    by |-> by, at |-> now])

\* The goroutine of note i of the current group of call c.
Me(c, i) == <<c, gi[c], i>>
Task(c, i) == tasks[c][i]
NoteOf(c, i) == callseq[c][gi[c]][i]
AllDone(c) == \A i \in DOMAIN tasks[c] : tasks[c][i].pc = "done"

\* A Play that returns from a disabled device a millisecond after the call.
PlayDisabledLate(c) ==
    /\ callpc' = [callpc EXCEPT ![c] = "done"]
    /\ endingAt' = [endingAt EXCEPT ![c] = now + Millisecond]
    /\ UNCHANGED <<callseq, whole>>

\* Play on a disabled device returns at once, lines 29-31.
PlayDisabled(c) ==
    /\ callpc' = [callpc EXCEPT ![c] = "done"]
    /\ endingAt' = [endingAt EXCEPT ![c] = now]
    /\ UNCHANGED <<callseq, whole>>

\* Play is called: lines 28-32.
PlayStart(c, seq, echoOn) ==
    /\ callpc[c] = "idle"
    /\ beginAt' = [beginAt EXCEPT ![c] = now]
    /\ echo' = [echo EXCEPT ![c] = echoOn]
    /\ IF ~enabled
       THEN PlayDisabled(c)
       ELSE /\ callpc' = [callpc EXCEPT ![c] = "loop"]
            /\ callseq' = [callseq EXCEPT ![c] = seq]
            /\ whole' = [whole EXCEPT ![c] = wholeNoteDuration(bpm)]
            /\ UNCHANGED endingAt
    /\ UNCHANGED <<now, inflight, stream, enabled, mutex, gi, starts,
                   tasks, bpmVars, timelineVars, openVars, registryVars,
                   listenVars, loopVars, closeVars, evalVars, echoed, walk>>

\* A PlayNote that takes the duration of the whole note from the BPM of the
\* moment.
WholeNoteOfTheMoment(c) == wholeNoteDuration(bpm)

\* The wholeNoteDuration that Play hands to PlayNote, line 45.
WholeNote(c) == whole[c]

\* A loop that does not wait for the goroutines of the previous group.
JoinedAtOnce(c) == TRUE

\* wg.Wait() of the previous group has returned (line 49).
Joined(c) == AllDone(c)

\* Lines 34-40: with echo the group is printed, a group of one note as
\* that note.
Echo(c, group) ==
    IF echo[c]
    THEN Append(echoed[c],
                [what |-> IF Len(group) = 1 THEN "note" ELSE "group",
                 notes |-> group])
    ELSE echoed[c]

\* Lines 51-53: with echo the line is ended.
EchoLine(c) ==
    IF echo[c] THEN Append(echoed[c], [what |-> "newline", notes |-> <<>>])
               ELSE echoed[c]

\* An echo that prints the notes of a group in place of playing them.
GoroutinesUnlessEchoed(c, group) ==
    IF echo[c] THEN <<>>
    ELSE [i \in 1..Len(group) |-> [pc |-> "ready", wake |-> 0]]

\* Lines 41-48: a goroutine is started for every note of the group.
Goroutines(c, group) == [i \in 1..Len(group) |-> [pc |-> "ready", wake |-> 0]]

\* One turn of the for loop, lines 33-50: once the previous group is joined,
\* either the next group is printed, with echo, and a goroutine is started
\* for every note of it, or the loop is over and Play returns.
PlayGroup(c) ==
    /\ callpc[c] = "loop"
    /\ Joined(c)
    /\ IF gi[c] < Len(callseq[c])
       THEN /\ gi' = [gi EXCEPT ![c] = @ + 1]
            /\ echoed' = [echoed EXCEPT ![c] =
                             Echo(c, callseq[c][gi[c] + 1])]
            /\ tasks' = [tasks EXCEPT ![c] =
                            Goroutines(c, callseq[c][gi[c] + 1])]
            /\ starts' = [starts EXCEPT ![c] = Append(@, now)]
            /\ UNCHANGED <<callpc, endingAt>>
       ELSE /\ callpc' = [callpc EXCEPT ![c] = "done"]
            /\ echoed' = [echoed EXCEPT ![c] = EchoLine(c)]
            /\ endingAt' = [endingAt EXCEPT ![c] = now]
            /\ tasks' = [tasks EXCEPT ![c] = <<>>]
            /\ UNCHANGED <<gi, starts>>
    /\ UNCHANGED <<now, inflight, stream, enabled, mutex, callseq, whole,
                   beginAt, bpmVars, timelineVars, openVars, registryVars,
                   listenVars, loopVars, closeVars, evalVars, echo, walk>>

\* PlayNote, lines 57-66: a rest goes to sleep; a pitched note takes the
\* mutex and enters WriteShort(noteOn, ...).
NoteStart(c, i) ==
    /\ callpc[c] = "loop"
    /\ i \in DOMAIN tasks[c]
    /\ Task(c, i).pc = "ready"
    /\ MayStart(c, i)
    /\ LET d == actualDuration(WholeNote(c), NoteOf(c, i))
       IN  IF IsRest(NoteOf(c, i))
           THEN /\ tasks' = [tasks EXCEPT ![c][i] =
                                [pc |-> "sleep", wake |-> now + d]]
                /\ UNCHANGED <<mutex, inflight>>
           ELSE /\ Lock(Me(c, i))
                /\ inflight' = inflight \cup {Me(c, i)}
                /\ tasks' = [tasks EXCEPT ![c][i] = [pc |-> "on", wake |-> 0]]
    /\ UNCHANGED <<now, stream, enabled, callpc, callseq, gi, whole,
                   beginAt, endingAt, starts, bpmVars, timelineVars, elsewhere>>

\* PlayNote, lines 66-69: the Note-On is written, the mutex released and
\* the sleep begins.
NoteOnWritten(c, i) ==
    /\ callpc[c] = "loop"
    /\ i \in DOMAIN tasks[c]
    /\ Task(c, i).pc = "on"
    /\ stream' = WriteShort(NoteOnMessage(NoteOf(c, i)), Me(c, i))
    /\ inflight' = inflight \ {Me(c, i)}
    /\ Unlock(Me(c, i))
    /\ tasks' = [tasks EXCEPT ![c][i] =
          [pc |-> "sleep",
           wake |-> now + actualDuration(WholeNote(c), NoteOf(c, i))]]
    /\ UNCHANGED <<now, enabled, callpc, callseq, gi, whole, beginAt,
                   endingAt, starts, bpmVars, timelineVars, elsewhere>>

\* The sleep is over (lines 59-60 and 69-73): a rest returns; a pitched
\* note takes the mutex and enters WriteShort(noteOff, ...).
NoteWake(c, i) ==
    /\ callpc[c] = "loop"
    /\ i \in DOMAIN tasks[c]
    /\ Task(c, i).pc = "sleep"
    /\ Task(c, i).wake <= now
    /\ IF IsRest(NoteOf(c, i))
       THEN /\ tasks' = [tasks EXCEPT ![c][i] = [pc |-> "done", wake |-> 0]]
            /\ UNCHANGED <<mutex, inflight>>
       ELSE /\ Lock(Me(c, i))
            /\ inflight' = inflight \cup {Me(c, i)}
            /\ tasks' = [tasks EXCEPT ![c][i] = [pc |-> "off", wake |-> 0]]
    /\ UNCHANGED <<now, stream, enabled, callpc, callseq, gi, whole,
                   beginAt, endingAt, starts, bpmVars, timelineVars, elsewhere>>

\* PlayNote, lines 73-75, and wg.Done() (line 46).
NoteOffWritten(c, i) ==
    /\ callpc[c] = "loop"
    /\ i \in DOMAIN tasks[c]
    /\ Task(c, i).pc = "off"
    /\ stream' = WriteShort(NoteOffMessage(NoteOf(c, i)), Me(c, i))
    /\ inflight' = inflight \ {Me(c, i)}
    /\ Unlock(Me(c, i))
    /\ tasks' = [tasks EXCEPT ![c][i] = [pc |-> "done", wake |-> 0]]
    /\ UNCHANGED <<now, enabled, callpc, callseq, gi, whole, beginAt,
                   endingAt, starts, bpmVars, timelineVars, elsewhere>>

\* A SetBeatsPerMinute that assigns whatever it is given.
SetBeatsPerMinuteUnchecked(b) ==
    /\ bpm' = b
    /\ bpmSet' = [arg |-> b, before |-> bpm]
    /\ UNCHANGED <<now, inflight, stream, playVars, timelineVars, elsewhere>>

\* SetBeatsPerMinute, lines 78-83.
SetBeatsPerMinute(b) ==
    /\ bpm' = IF b <= 0 THEN bpm ELSE b
    /\ bpmSet' = [arg |-> b, before |-> bpm]
    /\ UNCHANGED <<now, inflight, stream, playVars, timelineVars, elsewhere>>

-----------------------------------------------------------------------------
(* Open, and the calls made on what it returned *)

\* Open, lines 94-111: without a default output device, or when the stream
\* cannot be made, it returns nil and an error; otherwise the enabled device.
Open(deviceOk, streamOk) ==
    /\ handle = "none"
    /\ IF deviceOk /\ streamOk
       THEN /\ enabled' = TRUE
            /\ bpm' = DefaultBPM
            /\ bpmSet' = [arg |-> DefaultBPM, before |-> bpm]
            /\ mutex' = Free
            /\ handle' = "opened"
       ELSE /\ handle' = "nil"
            /\ UNCHANGED <<enabled, bpm, bpmSet, mutex>>
    /\ UNCHANGED <<now, inflight, stream, callpc, callseq, gi, whole, beginAt,
                   endingAt, starts, tasks, timelineVars, fault,
                   registryVars, listenVars, aboveVars>>

\* new(Midi), lines 95-96: a Midi that no stream was opened for is disabled.
New ==
    /\ handle = "none"
    /\ handle' = "zero"
    /\ enabled' = FALSE
    /\ UNCHANGED <<now, inflight, stream, mutex, callpc, callseq, gi, whole,
                   beginAt, endingAt, starts, tasks, bpmVars, timelineVars,
                   fault, registryVars, listenVars, aboveVars>>

\* The dereference of a nil *Midi panics.
Panic ==
    /\ fault' = TRUE
    /\ UNCHANGED <<now, inflight, stream, playVars, bpmVars, timelineVars,
                   handle, registryVars, listenVars, aboveVars>>

\* m.Play(seq, echo) on the *Midi the caller holds: m.enabled is read first
\* (line 29).
PlayCall(c, seq, echoOn) ==
    /\ handle # "none"
    /\ ~fault
    /\ callpc[c] = "idle"
    /\ IF handle = "nil" THEN Panic ELSE PlayStart(c, seq, echoOn)

\* m.SetBeatsPerMinute(b) on the *Midi the caller holds: m.bpm is written
\* only when b is positive (lines 79-82).
SetBeatsPerMinuteCall(b) ==
    /\ handle # "none"
    /\ ~fault
    /\ IF handle = "nil" /\ b > 0 THEN Panic ELSE SetBeatsPerMinute(b)

-----------------------------------------------------------------------------
(* The Timeline behind Schedule: events wait in firing order, which is by  *)
(* time and, among equal times, by submission; one dispatch loop fires     *)
(* them, one at a time, once their time has come.                          *)

\* A Schedule that puts an event before the waiting events of the same time.
ScheduleBeforeEqual(q, event, at, id) ==
    LET k == Cardinality({i \in 1..Len(q) : q[i].at < at})
    IN  SubSeq(q, 1, k) \o <<[ev |-> event, at |-> at, id |-> id]>>
          \o SubSeq(q, k + 1, Len(q))

\* Timeline.Schedule(event, at) on the list q of waiting events.
Schedule(q, event, at, id) ==
    LET k == Cardinality({i \in 1..Len(q) : q[i].at <= at})
    IN  SubSeq(q, 1, k) \o <<[ev |-> event, at |-> at, id |-> id]>>
          \o SubSeq(q, k + 1, Len(q))

\* Schedule every event of the list evs, in order, at the moment at.
RECURSIVE ScheduleAll(_, _, _, _)
ScheduleAll(q, evs, at, id) ==
    IF evs = <<>> THEN q
    ELSE ScheduleAll(Schedule(q, Head(evs), at, id + 1), Tail(evs), at, id + 1)

\* The event the dispatch loop fires next.
NextEvent(q) == Head(q)

\* A dispatch loop that does not wait for the time of an event.
DueAtOnce(e) == TRUE

\* The time of event e has come.
Due(e) == e.at <= now

RECURSIVE BitOr(_, _)
BitOr(a, b) ==
    IF a = 0 THEN b
    ELSE IF b = 0 THEN a
    ELSE (IF a % 2 = 1 \/ b % 2 = 1 THEN 1 ELSE 0)
           + 2 * BitOr(a \div 2, b \div 2)

pedalEvent(goingDown, channel) == [goingDown |-> goingDown, channel |-> channel]

\* The message pedalEvent.Handle writes, lines 143-150.
HandleMessage(p) ==
    LET onoff == IF p.goingDown THEN 127 ELSE 0
        status == BitOr(controlChange, p.channel - 1)
    IN  <<status, sustainPedal, onoff>>

\* A handledPedalChange that schedules the down event of an up-then-down
\* marker before its up event.
handledPedalChangeDownFirst(channel, group) ==
    IF Len(group) = 0 \/ Len(group) > 1
    THEN [events |-> <<>>, handled |-> FALSE]
    ELSE LET note == group[1]
         IN  CASE IsPedalUp(note) ->
                    [events |-> <<pedalEvent(FALSE, channel)>>,
                     handled |-> TRUE]
               [] IsPedalUpDown(note) ->
                    [events |-> <<pedalEvent(TRUE, channel),
                                  pedalEvent(FALSE, channel)>>,
                     handled |-> TRUE]
               [] IsPedalDown(note) ->
                    [events |-> <<pedalEvent(TRUE, channel)>>,
                     handled |-> FALSE]
               [] OTHER -> [events |-> <<>>, handled |-> FALSE]

\* What handledPedalChange schedules, in order, and what it returns,
\* lines 161-190.
handledPedalChange(channel, group) ==
    IF Len(group) = 0 \/ Len(group) > 1
    THEN [events |-> <<>>, handled |-> FALSE]
    ELSE LET note == group[1]
         IN  CASE IsPedalUp(note) ->
                    [events |-> <<pedalEvent(FALSE, channel)>>,
                     handled |-> TRUE]
               [] IsPedalUpDown(note) ->
                    [events |-> <<pedalEvent(FALSE, channel),
                                  pedalEvent(TRUE, channel)>>,
                     handled |-> TRUE]
               [] IsPedalDown(note) ->
                    [events |-> <<pedalEvent(TRUE, channel)>>,
                     handled |-> FALSE]
               [] OTHER -> [events |-> <<>>, handled |-> FALSE]

\* The groups handed to handledPedalChange.
PedalGroups ==
    { <<Pedal("up")>>, <<Pedal("down")>>, <<Pedal("updown")>>,
      <<>>, <<Pitched(60, 4)>>, <<Pedal("up"), Pedal("down")>> }

Channels == {1, 2}

\* The moments a caller passes: now, or a quarter note from now.
Moments == {now, now + wholeNoteDuration(bpm) \div 4}

\* A caller runs handledPedalChange(channel, timeline, moment, group).
PedalChange(channel, moment, group) ==
    LET r == handledPedalChange(channel, group)
    IN  /\ enabled
        /\ Len(pedalLog) < MaxPedalChanges
        /\ pending' = ScheduleAll(pending, r.events, moment, submitted)
        /\ submitted' = submitted + Len(r.events)
        /\ pedalLog' = Append(pedalLog,
              [group |-> group, moment |-> moment, channel |-> channel,
               handled |-> r.handled, first |-> submitted + 1,
               count |-> Len(r.events)])
        /\ UNCHANGED <<now, inflight, stream, playVars, bpmVars, handling,
                       fired, elsewhere>>

\* The dispatch loop takes the next event, whose time has come, and calls
\* its Handle, which enters WriteShort (line 150) without taking the mutex.
Fire ==
    /\ handling = NoEvent
    /\ pending # <<>>
    /\ Due(NextEvent(pending))
    /\ handling' = [ev |-> NextEvent(pending).ev, at |-> NextEvent(pending).at,
                    id |-> NextEvent(pending).id, seen |-> submitted]
    /\ pending' = Tail(pending)
    /\ inflight' = inflight \cup {TimelineTask}
    /\ UNCHANGED <<now, stream, playVars, bpmVars, submitted, fired, pedalLog,
                   elsewhere>>

\* WriteShort and Handle return.
Handled ==
    /\ handling # NoEvent
    /\ stream' = WriteShort(HandleMessage(handling.ev), TimelineTask)
    /\ inflight' = inflight \ {TimelineTask}
    /\ fired' = Append(fired,
          [ev |-> handling.ev, at |-> handling.at, id |-> handling.id,
           seen |-> handling.seen, when |-> now])
    /\ handling' = NoEvent
    /\ UNCHANGED <<now, playVars, bpmVars, pending, submitted, pedalLog,
                   elsewhere>>

-----------------------------------------------------------------------------
(* The clock *)

\* Some goroutine can take a step without time passing.
Busy ==
    \/ \E c \in Calls :
          /\ callpc[c] = "loop"
          /\ \/ Joined(c)
             \/ \E i \in DOMAIN tasks[c] :
                   \/ tasks[c][i].pc = "ready" /\ MayStart(c, i)
                   \/ tasks[c][i].pc \in {"on", "off"}
                   \/ tasks[c][i].pc = "sleep" /\ tasks[c][i].wake <= now
    \/ handling # NoEvent
    \/ pending # <<>> /\ Due(NextEvent(pending))
    \/ \E p \in DOMAIN wake : wake[p] >= 0 /\ wake[p] <= now

Tick ==
    /\ ~Busy
    /\ LET sleepers == UNION { { tasks[c][i].wake : i \in
                 { j \in DOMAIN tasks[c] : tasks[c][j].pc = "sleep" } } :
                 c \in Calls }
           due == { pending[i].at : i \in DOMAIN pending }
           asleep == { wake[p] : p \in { q \in DOMAIN wake : wake[q] >= 0 } }
       IN  /\ sleepers \cup due \cup asleep # {}
           /\ now' = Min(sleepers \cup due \cup asleep)
    /\ UNCHANGED <<inflight, stream, playVars, bpmVars, timelineVars,
                   elsewhere>>

-----------------------------------------------------------------------------
(* The playback engine: Play calls, pedal changes and the timeline *)

\* The values handed to SetBeatsPerMinute.
BPMs == {-60, 0, 90, 128}

\* The Midi that Open has returned, lines 106-110.
InitMidi ==
    /\ handle = "opened"
    /\ fault = FALSE
    /\ enabled = TRUE
    /\ bpm = DefaultBPM
    /\ bpmSet = [arg |-> DefaultBPM, before |-> 0]

\* No Midi yet: Open has not been called.
InitNoMidi ==
    /\ handle = "none"
    /\ fault = FALSE
    /\ enabled = FALSE
    /\ bpm = 0
    /\ bpmSet = [arg |-> 0, before |-> 0]

InitPlayback ==
    /\ now = 0
    /\ mutex = Free
    /\ inflight = {}
    /\ stream = <<>>
    /\ callpc = [c \in Calls |-> "idle"]
    /\ callseq = [c \in Calls |-> <<>>]
    /\ gi = [c \in Calls |-> 0]
    /\ whole = [c \in Calls |-> 0]
    /\ beginAt = [c \in Calls |-> 0]
    /\ endingAt = [c \in Calls |-> 0]
    /\ starts = [c \in Calls |-> <<>>]
    /\ tasks = [c \in Calls |-> <<>>]
    /\ pending = <<>>
    /\ submitted = 0
    /\ handling = NoEvent
    /\ fired = <<>>
    /\ pedalLog = <<>>
    /\ echo = [c \in Calls |-> FALSE]
    /\ echoed = [c \in Calls |-> <<>>]

InitEngine == InitMidi /\ InitPlayback

\* Open or new(Midi), and then a Play call and changes of the BPM on the
\* *Midi obtained.
NextDevice ==
    \/ \E deviceOk, streamOk \in BOOLEAN : Open(deviceOk, streamOk)
    \/ New
    \/ \E seq \in Sequences, echoOn \in BOOLEAN : PlayCall(1, seq, echoOn)
    \/ PlayGroup(1)
    \/ \E i \in 1..MaxGroupSize : NoteStart(1, i)
    \/ \E i \in 1..MaxGroupSize : NoteOnWritten(1, i)
    \/ \E i \in 1..MaxGroupSize : NoteWake(1, i)
    \/ \E i \in 1..MaxGroupSize : NoteOffWritten(1, i)
    \/ \E b \in BPMs : SetBeatsPerMinuteCall(b)
    \/ Tick

\* One Play call, concurrent with changes of the BPM.
NextBpm ==
    \/ callpc[1] = "idle" /\ \E seq \in Sequences : PlayStart(1, seq, FALSE)
    \/ PlayGroup(1)
    \/ \E i \in 1..MaxGroupSize : NoteStart(1, i)
    \/ \E i \in 1..MaxGroupSize : NoteOnWritten(1, i)
    \/ \E i \in 1..MaxGroupSize : NoteWake(1, i)
    \/ \E i \in 1..MaxGroupSize : NoteOffWritten(1, i)
    \/ \E b \in BPMs : SetBeatsPerMinute(b)
    \/ Tick

\* Play calls, concurrent with each other.
NextPlay ==
    \/ callpc[1] = "idle" /\ \E seq \in Sequences : PlayStart(1, seq, FALSE)
    \/ callpc[2] = "idle"
          /\ \E seq \in ShortSequences : PlayStart(2, seq, FALSE)
    \/ \E c \in Calls : PlayGroup(c)
    \/ \E c \in Calls, i \in 1..MaxGroupSize : NoteStart(c, i)
    \/ \E c \in Calls, i \in 1..MaxGroupSize : NoteOnWritten(c, i)
    \/ \E c \in Calls, i \in 1..MaxGroupSize : NoteWake(c, i)
    \/ \E c \in Calls, i \in 1..MaxGroupSize : NoteOffWritten(c, i)
    \/ Tick

\* A Play call with or without echo and then, when it has returned, a
\* Play call of the same sequence the other way.
NextEcho ==
    \/ callpc[1] = "idle"
          /\ \E seq \in Sequences, echoOn \in BOOLEAN :
                PlayStart(1, seq, echoOn)
    \/ callpc[2] = "idle" /\ callpc[1] = "done"
          /\ PlayStart(2, callseq[1], ~echo[1])
    \/ \E c \in Calls : PlayGroup(c)
    \/ \E c \in Calls, i \in 1..MaxGroupSize : NoteStart(c, i)
    \/ \E c \in Calls, i \in 1..MaxGroupSize : NoteOnWritten(c, i)
    \/ \E c \in Calls, i \in 1..MaxGroupSize : NoteWake(c, i)
    \/ \E c \in Calls, i \in 1..MaxGroupSize : NoteOffWritten(c, i)
    \/ Tick

\* Pedal changes and the timeline that fires them.
NextTimeline ==
    \/ \E ch \in Channels, m \in Moments, g \in PedalGroups :
          PedalChange(ch, m, g)
    \/ Fire
    \/ Handled
    \/ Tick

\* One Play call, concurrent with pedal changes and the timeline that fires
\* them.
NextPedal ==
    \/ callpc[1] = "idle"
          /\ \E seq \in ShortSequences : PlayStart(1, seq, FALSE)
    \/ PlayGroup(1)
    \/ \E i \in 1..MaxGroupSize : NoteStart(1, i)
    \/ \E i \in 1..MaxGroupSize : NoteOnWritten(1, i)
    \/ \E i \in 1..MaxGroupSize : NoteWake(1, i)
    \/ \E i \in 1..MaxGroupSize : NoteOffWritten(1, i)
    \/ \E ch \in Channels, m \in Moments, g \in PedalGroups :
          PedalChange(ch, m, g)
    \/ Fire
    \/ Handled
    \/ Tick

-----------------------------------------------------------------------------
(* DeviceRegistry: Output, Input, Command and Listen *)

\* The goroutines that call Output, once each.
Callers == {1, 2, 3}
DeviceIDs == {1, 2}
NoResult == [dev |-> 0, err |-> FALSE]
\* No range loop over a cache map is under way.
NoWalk == [left |-> {}, seen |-> {}]

\* A range loop over a map with these keys begins.
Walk(keys) == [left |-> keys, seen |-> {}]

\* The state outside the registry and its range loops.
outsideVars == <<now, inflight, stream, playVars, bpmVars, timelineVars,
                 openVars, loopVars, closeVars, echoVars, evalVars,
                 listenVars>>

\* The range loop of caller p over the cache map m produces the key id: a
\* key of the map it has not produced yet.  No lock is held, so the map can
\* have got keys since the loop began; such a key is produced or is skipped.
Range(p, m, id) ==
    /\ id \in DOMAIN m \ walk[p].seen
    /\ walk' = [walk EXCEPT ![p] = [left |-> @.left \ {id},
                                    seen |-> @.seen \cup {id}]]

\* The range loop of caller p has produced every key the map had when the
\* loop began.
RangeOver(p) == walk[p].left = {}

Put(f, k, v) == [x \in DOMAIN f \cup {k} |-> IF x = k THEN v ELSE f[x]]

\* An error that tells neither the operation nor the id.
FailureUnnamed(op, id) == [dev |-> 0, err |-> TRUE, op |-> "", id |-> 0]

\* return nil, tre.New(err, op, "id", id): lines 254 and 274.
Failure(op, id) == [dev |-> 0, err |-> TRUE, op |-> op, id |-> id]

\* A goroutine calls Output(id).
OutputCall(p, id) ==
    /\ regpc[p] = "idle"
    /\ regpc' = [regpc EXCEPT ![p] = "rlock"]
    /\ regid' = [regid EXCEPT ![p] = id]
    /\ UNCHANGED <<regMutex, out, devices, streamsOut, opened, regtmp, regret>>
    /\ UNCHANGED <<engineVars, listenVars, accessVars>>

\* Lines 243-248: the look-up under the shared lock.
OutputLookup(p) ==
    /\ regpc[p] = "rlock"
    /\ regMutex = 0
    /\ IF regid[p] \in DOMAIN out
       THEN /\ regret' = [regret EXCEPT ![p] =
                            [dev |-> out[regid[p]], err |-> FALSE]]
            /\ regpc' = [regpc EXCEPT ![p] = "returned"]
       ELSE /\ regpc' = [regpc EXCEPT ![p] = "miss"]
            /\ UNCHANGED regret
    /\ UNCHANGED <<regMutex, out, devices, streamsOut, opened, regid, regtmp>>
    /\ UNCHANGED <<engineVars, listenVars, accessVars>>

\* Line 250: d.mutex.Lock().
OutputLock(p) ==
    /\ regpc[p] = "miss"
    /\ regMutex = 0
    /\ regMutex' = p
    /\ regpc' = [regpc EXCEPT ![p] = "locked"]
    /\ UNCHANGED <<out, devices, streamsOut, opened, regid, regtmp, regret>>
    /\ UNCHANGED <<engineVars, listenVars, accessVars>>

\* streamRegistry.output(id): the cached stream of id or, the first time, a
\* newly opened hardware stream, which is then cached; opening can fail.
streamRegistryOutput(id, ok) ==
    IF id \in DOMAIN streamsOut
    THEN [stream |-> streamsOut[id], err |-> FALSE, open |-> FALSE]
    ELSE IF ok
         THEN [stream |-> Len(opened) + 1, err |-> FALSE, open |-> TRUE]
         ELSE [stream |-> 0, err |-> TRUE, open |-> FALSE]

\* Lines 252-255: the stream is fetched; on an error Output returns it and
\* the deferred Unlock runs.
OutputStream(p, ok) ==
    /\ regpc[p] = "locked"
    /\ LET r == streamRegistryOutput(regid[p], ok)
       IN  /\ opened' = IF r.open THEN Append(opened, regid[p]) ELSE opened
           /\ streamsOut' = IF r.open THEN Put(streamsOut, regid[p], r.stream)
                                      ELSE streamsOut
           /\ IF r.err
              THEN /\ regret' = [regret EXCEPT ![p] =
                                    Failure("Output", regid[p])]
                   /\ regpc' = [regpc EXCEPT ![p] = "returned"]
                   /\ regMutex' = 0
                   /\ UNCHANGED regtmp
              ELSE /\ regtmp' = [regtmp EXCEPT ![p].midiOut = r.stream]
                   /\ regpc' = [regpc EXCEPT ![p] = "opened"]
                   /\ UNCHANGED <<regret, regMutex>>
    /\ UNCHANGED <<out, devices, regid>>
    /\ UNCHANGED <<engineVars, listenVars, accessVars>>

\* NewOutputDevice(id, midiOut, 1)
NewOutputDevice(id, midiOut, channel) ==
    [id |-> id, stream |-> midiOut, defaultChannel |-> channel,
     echo |-> FALSE, started |-> FALSE]

\* Lines 256-257: a device is created and cached.
OutputCache(p) ==
    /\ regpc[p] = "opened"
    /\ devices' = Append(devices,
                         NewOutputDevice(regid[p], regtmp[p].midiOut, 1))
    /\ regtmp' = [regtmp EXCEPT ![p].od = Len(devices) + 1]
    /\ out' = Put(out, regid[p], Len(devices) + 1)
    /\ regpc' = [regpc EXCEPT ![p] = "cached"]
    /\ UNCHANGED <<regMutex, streamsOut, opened, regid, regret>>
    /\ UNCHANGED <<engineVars, listenVars, accessVars>>

\* Lines 258-259: od.Start(), return od, and the deferred Unlock.
OutputStart(p) ==
    /\ regpc[p] = "cached"
    /\ devices' = [devices EXCEPT ![regtmp[p].od].started = TRUE]
    /\ regret' = [regret EXCEPT ![p] = [dev |-> regtmp[p].od, err |-> FALSE]]
    /\ regpc' = [regpc EXCEPT ![p] = "returned"]
    /\ regMutex' = 0
    /\ UNCHANGED <<out, streamsOut, opened, regid, regtmp>>
    /\ UNCHANGED <<engineVars, listenVars, accessVars>>

\* A goroutine calls Input(id).
InputCall(p, id) ==
    /\ regpc[p] = "idle"
    /\ regpc' = [regpc EXCEPT ![p] = "irlock"]
    /\ regid' = [regid EXCEPT ![p] = id]
    /\ UNCHANGED <<regMutex, out, devices, streamsOut, opened, regtmp, regret>>
    /\ UNCHANGED <<engineVars, listenVars, accessVars>>

\* Lines 263-268: the look-up under the shared lock.
InputLookup(p) ==
    /\ regpc[p] = "irlock"
    /\ regMutex = 0
    /\ IF regid[p] \in DOMAIN inp
       THEN /\ regret' = [regret EXCEPT ![p] =
                            [dev |-> inp[regid[p]], err |-> FALSE]]
            /\ regpc' = [regpc EXCEPT ![p] = "returned"]
       ELSE /\ regpc' = [regpc EXCEPT ![p] = "imiss"]
            /\ UNCHANGED regret
    /\ UNCHANGED <<regMutex, out, devices, streamsOut, opened, regid, regtmp>>
    /\ UNCHANGED <<engineVars, listenVars, accessVars>>

\* Line 270: d.mutex.Lock().
InputLock(p) ==
    /\ regpc[p] = "imiss"
    /\ regMutex = 0
    /\ regMutex' = p
    /\ regpc' = [regpc EXCEPT ![p] = "ilocked"]
    /\ UNCHANGED <<out, devices, streamsOut, opened, regid, regtmp, regret>>
    /\ UNCHANGED <<engineVars, listenVars, accessVars>>

\* streamRegistry.input(id): the cached stream of id or, the first time, a
\* newly opened hardware stream, which is then cached; opening can fail.
streamRegistryInput(id, ok) ==
    IF id \in DOMAIN streamsIn
    THEN [stream |-> streamsIn[id], err |-> FALSE, open |-> FALSE]
    ELSE IF ok
         THEN [stream |-> Cardinality(DOMAIN streamsIn) + 1, err |-> FALSE,
               open |-> TRUE]
         ELSE [stream |-> 0, err |-> TRUE, open |-> FALSE]

\* NewInputDevice(id, midiIn), with its listener
NewInputDevice(id, midiIn) ==
    [id |-> id, stream |-> midiIn, listening |-> FALSE, subscribers |-> {}]

\* Lines 272-278 and the deferred Unlock: the stream is fetched; on an error
\* Input returns it; otherwise a device is created, cached and returned.
InputOpen(p, ok) ==
    /\ regpc[p] = "ilocked"
    /\ LET r == streamRegistryInput(regid[p], ok)
       IN  /\ streamsIn' = IF r.open THEN Put(streamsIn, regid[p], r.stream)
                                     ELSE streamsIn
           /\ IF r.err
              THEN /\ regret' = [regret EXCEPT ![p] =
                                    Failure("Input", regid[p])]
                   /\ UNCHANGED <<inp, inDevices>>
              ELSE /\ inDevices' = Append(inDevices,
                                       NewInputDevice(regid[p], r.stream))
                   /\ inp' = Put(inp, regid[p], Len(inDevices) + 1)
                   /\ regret' = [regret EXCEPT ![p] =
                                    [dev |-> Len(inDevices) + 1, err |-> FALSE]]
    /\ regpc' = [regpc EXCEPT ![p] = "returned"]
    /\ regMutex' = 0
    /\ UNCHANGED <<out, devices, streamsOut, opened, regid, regtmp>>
    /\ UNCHANGED <<regop, regout, defaultOutputID, defaultInputID, isRunning,
                   told, captureVars>>
    /\ UNCHANGED <<engineVars, listenVars>>

\* strconv.Atoi on the words handed to Command.
Atoi(word) ==
    CASE word = "1" -> [nr |-> 1, err |-> FALSE]
      [] word = "2" -> [nr |-> 2, err |-> FALSE]
      [] OTHER -> [nr |-> 0, err |-> TRUE]

\* The argument lists handed to Command.
CommandArgs ==
    { <<>>, <<"echo">>, <<"in", "2">>, <<"out", "2">>, <<"out">>,
      <<"out", "x">>, <<"channel", "1">> }

\* The program has panicked.
Crashed == \E p \in Callers : regout[p] \in {"fault", "fatal"}

\* Command(args), lines 300-346, up to its call of Output or to its return:
\* without arguments printInfo prints and then calls Output (line 382),
\* "echo" calls Output (line 307), "in" and "out" set a default id.
CommandCall(p, args) ==
    /\ regpc[p] = "idle"
    /\ ~Crashed
    /\ IF Len(args) = 0 \/ (Len(args) > 0 /\ args[1] = "echo")
       THEN /\ regop' = [regop EXCEPT ![p] =
                            IF Len(args) = 0 THEN "info" ELSE "echo"]
            /\ regid' = [regid EXCEPT ![p] = defaultOutputID]
            /\ regpc' = [regpc EXCEPT ![p] = "rlock"]
            /\ UNCHANGED <<regout, defaultInputID, defaultOutputID>>
       ELSE /\ regop' = [regop EXCEPT ![p] = args[1]]
            /\ regpc' = [regpc EXCEPT ![p] = "ended"]
            /\ UNCHANGED regid
            /\ IF args[1] \in {"in", "out"}
               THEN IF Len(args) # 2
                    THEN /\ regout' = [regout EXCEPT ![p] = "warning"]
                         /\ UNCHANGED <<defaultInputID, defaultOutputID>>
                    ELSE IF Atoi(args[2]).err
                    THEN /\ regout' = [regout EXCEPT ![p] = "error"]
                         /\ UNCHANGED <<defaultInputID, defaultOutputID>>
                    ELSE /\ regout' = [regout EXCEPT ![p] = "info"]
                         /\ defaultInputID' = IF args[1] = "in"
                               THEN Atoi(args[2]).nr ELSE defaultInputID
                         /\ defaultOutputID' = IF args[1] = "out"
                               THEN Atoi(args[2]).nr ELSE defaultOutputID
               ELSE /\ regout' = [regout EXCEPT ![p] = "warning"]
                    /\ UNCHANGED <<defaultInputID, defaultOutputID>>
    /\ UNCHANGED <<regMutex, out, devices, streamsOut, opened, regtmp, regret,
                   inp, inDevices, streamsIn, isRunning, told,
                   captureVars>>
    /\ UNCHANGED <<engineVars, listenVars>>

\* Command after Output has returned: od.echo is toggled (lines 308-309) or
\* od.defaultChannel and od.echo are printed (lines 383-384), after which
\* printInfo begins its range loop over d.out (line 387).  The error of
\* Output is dropped; when od is nil the dereference panics.
CommandEnd(p) ==
    /\ regpc[p] = "returned"
    /\ regop[p] \in {"echo", "info"}
    /\ ~Crashed
    /\ LET od == regret[p].dev
       IN  IF od = 0
           THEN /\ regout' = [regout EXCEPT ![p] = "fault"]
                /\ UNCHANGED devices
           ELSE IF regop[p] = "echo"
           THEN /\ devices' = [devices EXCEPT ![od].echo = ~@]
                /\ regout' = [regout EXCEPT ![p] = "info"]
           ELSE /\ UNCHANGED <<regout, devices>>
    /\ IF regop[p] = "info" /\ regret[p].dev # 0
       THEN /\ regpc' = [regpc EXCEPT ![p] = "listing"]
            /\ walk' = [walk EXCEPT ![p] = Walk(DOMAIN out)]
       ELSE /\ regpc' = [regpc EXCEPT ![p] = "ended"]
            /\ UNCHANGED walk
    /\ UNCHANGED <<regMutex, out, streamsOut, opened, regid, regtmp, regret,
                   inp, inDevices, streamsIn, regop, defaultOutputID,
                   defaultInputID, isRunning, told, captureVars>>
    /\ UNCHANGED outsideVars

\* printInfo, lines 387-391: the range loop over d.out produces one more
\* device, whose stream is logged when it is a tracing one.
InfoLog(p, id) ==
    /\ regpc[p] = "listing"
    /\ ~Crashed
    /\ Range(p, out, id)
    /\ UNCHANGED <<registryVars, outsideVars>>

\* printInfo, line 392, and Command return when the range loop is over.
InfoEnd(p) ==
    /\ regpc[p] = "listing"
    /\ ~Crashed
    /\ RangeOver(p)
    /\ regpc' = [regpc EXCEPT ![p] = "ended"]
    /\ regout' = [regout EXCEPT ![p] = "nil"]
    /\ walk' = [walk EXCEPT ![p] = NoWalk]
    /\ UNCHANGED <<regMutex, out, devices, streamsOut, opened, regid, regtmp,
                   regret, inp, inDevices, streamsIn, regop, defaultOutputID,
                   defaultInputID, isRunning, told, captureVars>>
    /\ UNCHANGED outsideVars

\* The NoteListener that is subscribed: the Listen.
TheListen == "listen"

\* DeviceRegistry.Listen(deviceID, who, startOrStop), lines 404-408, up to
\* its call of Input; op tells on whose behalf: "listenStart" and
\* "listenStop" for a plain call, "play" and "stop" for Listen.Play and
\* Listen.Stop.
DeviceListen(p, deviceID, op) ==
    /\ regop' = [regop EXCEPT ![p] = op]
    /\ regid' = [regid EXCEPT ![p] = deviceID]
    /\ regpc' = [regpc EXCEPT ![p] = "irlock"]
    /\ told' = Append(told, op \in {"listenStart", "play"})

\* A goroutine calls Listen(deviceID, who, startOrStop) of the registry.
ListenCall(p, deviceID, startOrStop) ==
    /\ regpc[p] = "idle"
    /\ ~Crashed
    /\ Len(told) < MaxListenCalls
    /\ DeviceListen(p, deviceID,
                    IF startOrStop THEN "listenStart" ELSE "listenStop")
    /\ UNCHANGED <<regMutex, out, devices, streamsOut, opened, regtmp, regret,
                   inp, inDevices, streamsIn, regout, defaultOutputID,
                   defaultInputID, isRunning, captureVars>>
    /\ UNCHANGED <<engineVars, listenVars>>

\* The time the listener is given to flush pending events, line 416.
GracePeriod == 200 * Millisecond

\* A sleep that is over as soon as it has begun.
AwakeAtOnce(p) == TRUE

\* The time.Sleep of caller p is over.
Awake(p) == wake[p] <= now

\* Listen after Input has returned, lines 409-416 and 418-421: an error is
\* reported as a warning; otherwise, to stop, who is removed; to start, the
\* listener is started and the caller goes to sleep.
ListenEnd(p) ==
    /\ regpc[p] = "returned"
    /\ regop[p] \in {"listenStart", "listenStop", "play", "stop"}
    /\ ~Crashed
    /\ LET ide == regret[p].dev
       IN  IF regret[p].err
           THEN /\ regout' = [regout EXCEPT ![p] =
                       IF regop[p] \in {"play", "stop"} THEN "nil"
                                                        ELSE "warning"]
                /\ regpc' = [regpc EXCEPT ![p] = "ended"]
                /\ UNCHANGED <<inDevices, wake>>
           ELSE IF regop[p] \in {"listenStart", "play"}
                THEN /\ inDevices' = [inDevices EXCEPT ![ide].listening = TRUE]
                     /\ wake' = [wake EXCEPT ![p] = now + GracePeriod]
                     /\ regpc' = [regpc EXCEPT ![p] = "sleeping"]
                     /\ UNCHANGED regout
                ELSE /\ inDevices' = [inDevices EXCEPT
                                        ![ide].subscribers = @ \ {TheListen}]
                     /\ regout' = [regout EXCEPT ![p] =
                            IF regop[p] = "stop" THEN "nil" ELSE "ok"]
                     /\ regpc' = [regpc EXCEPT ![p] = "ended"]
                     /\ UNCHANGED wake
    /\ UNCHANGED <<regMutex, out, devices, streamsOut, opened, regid, regtmp,
                   regret, inp, streamsIn, regop, defaultOutputID,
                   defaultInputID, isRunning, told, inputCapability, unheard>>
    /\ UNCHANGED <<engineVars, listenVars>>

\* Listen after its sleep, line 417: who is added to the listener.
ListenAdd(p) ==
    /\ regpc[p] = "sleeping"
    /\ ~Crashed
    /\ Awake(p)
    /\ LET ide == regret[p].dev
       IN  inDevices' = [inDevices EXCEPT
                           ![ide].subscribers = @ \cup {TheListen}]
    /\ regout' = [regout EXCEPT ![p] =
                     IF regop[p] = "play" THEN "nil" ELSE "ok"]
    /\ regpc' = [regpc EXCEPT ![p] = "ended"]
    /\ wake' = [wake EXCEPT ![p] = -1]
    /\ UNCHANGED <<regMutex, out, devices, streamsOut, opened, regid, regtmp,
                   regret, inp, streamsIn, regop, defaultOutputID,
                   defaultInputID, isRunning, told, inputCapability, unheard>>
    /\ UNCHANGED <<engineVars, listenVars>>

\* The input device of the Listen: l.deviceID.
ListenDeviceID == 1

\* A Listen that never takes itself for running.
ListeningNever == FALSE

\* l.isRunning, as Play and Stop read it (part_001 lines 50 and 62).
Listening == isRunning

\* Listen.Play, lines 56-57: the Listen is running and the device's Listen
\* is called.
ListenPlayStarted(p) ==
    /\ Len(told) < MaxListenCalls
    /\ isRunning' = TRUE
    /\ DeviceListen(p, ListenDeviceID, "play")
    /\ UNCHANGED regout

\* A Play that goes on without the input capability.
ListenPlayAnyway(p) == ListenPlayStarted(p)

\* Listen.Play, lines 53-55: without the input capability Play returns an
\* error.
ListenPlayRefused(p) ==
    /\ regop' = [regop EXCEPT ![p] = "play"]
    /\ regout' = [regout EXCEPT ![p] = "error"]
    /\ regpc' = [regpc EXCEPT ![p] = "ended"]
    /\ UNCHANGED <<isRunning, told, regid>>

\* Listen.Play, part_001 lines 49-59, up to the call of the device's Listen
\* or to its return.
ListenPlay(p, hasInputCapability) ==
    /\ regpc[p] = "idle"
    /\ ~Crashed
    /\ IF Listening
       THEN /\ regop' = [regop EXCEPT ![p] = "play"]
            /\ regout' = [regout EXCEPT ![p] = "nil"]
            /\ regpc' = [regpc EXCEPT ![p] = "ended"]
            /\ UNCHANGED <<isRunning, told, regid, inputCapability>>
       ELSE /\ inputCapability' = hasInputCapability
            /\ IF ~hasInputCapability THEN ListenPlayRefused(p)
                                      ELSE ListenPlayStarted(p)
    /\ UNCHANGED <<regMutex, out, devices, streamsOut, opened, regtmp, regret,
                   inp, inDevices, streamsIn, defaultOutputID, defaultInputID,
                   wake, unheard>>
    /\ UNCHANGED <<engineVars, listenVars>>

\* Listen.Stop, part_001 lines 61-68, up to the call of the device's Listen
\* or to its return.
ListenStop(p) ==
    /\ regpc[p] = "idle"
    /\ ~Crashed
    /\ IF ~Listening
       THEN /\ regop' = [regop EXCEPT ![p] = "stop"]
            /\ regout' = [regout EXCEPT ![p] = "nil"]
            /\ regpc' = [regpc EXCEPT ![p] = "ended"]
            /\ UNCHANGED <<isRunning, told, regid>>
       ELSE /\ Len(told) < MaxListenCalls
            /\ isRunning' = FALSE
            /\ DeviceListen(p, ListenDeviceID, "stop")
            /\ UNCHANGED regout
    /\ UNCHANGED <<regMutex, out, devices, streamsOut, opened, regtmp, regret,
                   inp, inDevices, streamsIn, defaultOutputID, defaultInputID,
                   captureVars>>
    /\ UNCHANGED <<engineVars, listenVars>>

\* The caller, whose call has returned, is about to make its next call.
CallAgain(p) ==
    /\ regpc[p] = "ended"
    /\ ~Crashed
    /\ regpc' = [regpc EXCEPT ![p] = "idle"]
    /\ regop' = [regop EXCEPT ![p] = "none"]
    /\ regout' = [regout EXCEPT ![p] = "none"]
    /\ regid' = [regid EXCEPT ![p] = 0]
    /\ regret' = [regret EXCEPT ![p] = NoResult]
    /\ UNCHANGED <<regMutex, out, devices, streamsOut, opened, regtmp, inp,
                   inDevices, streamsIn, defaultOutputID, defaultInputID,
                   isRunning, told, captureVars>>
    /\ UNCHANGED <<engineVars, listenVars>>

\* A goroutine calls Reset(), line 233: the range loop over d.out begins.
ResetCall(p) ==
    /\ regpc[p] = "idle"
    /\ ~Crashed
    /\ regop' = [regop EXCEPT ![p] = "reset"]
    /\ regpc' = [regpc EXCEPT ![p] = "resetOut"]
    /\ walk' = [walk EXCEPT ![p] = Walk(DOMAIN out)]
    /\ UNCHANGED <<regMutex, out, devices, streamsOut, opened, regid, regtmp,
                   regret, inp, inDevices, streamsIn, regout, defaultOutputID,
                   defaultInputID, isRunning, told, captureVars>>
    /\ UNCHANGED outsideVars

\* Reset, lines 234-236: each.Reset() for one more output device; what it
\* does to the device is outside the registry.
ResetOutput(p, id) ==
    /\ regpc[p] = "resetOut"
    /\ ~Crashed
    /\ Range(p, out, id)
    /\ UNCHANGED <<registryVars, outsideVars>>

\* Reset, line 237: the loop over d.out is over and that over d.in begins.
ResetInputs(p) ==
    /\ regpc[p] = "resetOut"
    /\ ~Crashed
    /\ RangeOver(p)
    /\ regpc' = [regpc EXCEPT ![p] = "resetIn"]
    /\ walk' = [walk EXCEPT ![p] = Walk(DOMAIN inp)]
    /\ UNCHANGED <<regMutex, out, devices, streamsOut, opened, regid, regtmp,
                   regret, accessVars>>
    /\ UNCHANGED outsideVars

\* Reset, lines 237-239: each.stopListener() for one more input device.
ResetStopListener(p, id) ==
    /\ regpc[p] = "resetIn"
    /\ ~Crashed
    /\ Range(p, inp, id)
    /\ inDevices' = [inDevices EXCEPT ![inp[id]].listening = FALSE]
    /\ UNCHANGED <<regMutex, out, devices, streamsOut, opened, regpc, regid,
                   regtmp, regret, inp, streamsIn, regop, regout,
                   defaultOutputID, defaultInputID, isRunning, told,
                   captureVars>>
    /\ UNCHANGED outsideVars

\* Reset returns, line 240, when the loop over d.in is over.
ResetEnd(p) ==
    /\ regpc[p] = "resetIn"
    /\ ~Crashed
    /\ RangeOver(p)
    /\ regpc' = [regpc EXCEPT ![p] = "ended"]
    /\ regout' = [regout EXCEPT ![p] = "nil"]
    /\ walk' = [walk EXCEPT ![p] = NoWalk]
    /\ UNCHANGED <<regMutex, out, devices, streamsOut, opened, regid, regtmp,
                   regret, inp, inDevices, streamsIn, regop, defaultOutputID,
                   defaultInputID, isRunning, told, captureVars>>
    /\ UNCHANGED outsideVars

\* The callers whose range loop over d.out is under way.
RangingOut == { p \in Callers : regpc[p] \in {"resetOut", "listing"} }

\* The callers whose range loop over d.in is under way.
RangingIn == { p \in Callers : regpc[p] = "resetIn" }

\* The callers that are about to insert into d.out (line 257) and into d.in
\* (line 277).
WritingOut == { q \in Callers : regpc[q] = "opened" }
WritingIn == { q \in Callers : regpc[q] = "ilocked" }

\* A range loop without the lock over a map that another goroutine is
\* writing is a data race; the runtime can detect it, and it then ends the
\* program with a fatal error.
MapFault(p) ==
    /\ ~Crashed
    /\ \/ p \in RangingOut /\ WritingOut \ {p} # {}
       \/ p \in RangingIn /\ WritingIn \ {p} # {}
    /\ regpc' = [regpc EXCEPT ![p] = "ended"]
    /\ regout' = [regout EXCEPT ![p] = "fatal"]
    /\ walk' = [walk EXCEPT ![p] = NoWalk]
    /\ UNCHANGED <<regMutex, out, devices, streamsOut, opened, regid, regtmp,
                   regret, inp, inDevices, streamsIn, regop, defaultOutputID,
                   defaultInputID, isRunning, told, captureVars>>
    /\ UNCHANGED outsideVars

InitRegistry ==
    /\ regMutex = 0
    /\ out = <<>>
    /\ devices = <<>>
    /\ streamsOut = <<>>
    /\ opened = <<>>
    /\ regpc = [p \in Callers |-> "idle"]
    /\ regid = [p \in Callers |-> 0]
    /\ regtmp = [p \in Callers |-> [midiOut |-> 0, od |-> 0]]
    /\ regret = [p \in Callers |-> NoResult]
    /\ inp = <<>>
    /\ inDevices = <<>>
    /\ streamsIn = <<>>
    /\ regop = [p \in Callers |-> "none"]
    /\ regout = [p \in Callers |-> "none"]
    /\ defaultOutputID = 1
    /\ defaultInputID = 0
    /\ isRunning = FALSE
    /\ told = <<>>
    /\ inputCapability = TRUE
    /\ wake = [p \in Callers |-> -1]
    /\ unheard = 0
    /\ walk = [p \in Callers |-> NoWalk]

NextRegistry ==
    \/ \E p \in Callers, id \in DeviceIDs : OutputCall(p, id)
    \/ \E p \in Callers : OutputLookup(p)
    \/ \E p \in Callers : OutputLock(p)
    \/ \E p \in Callers, ok \in BOOLEAN : OutputStream(p, ok)
    \/ \E p \in Callers : OutputCache(p)
    \/ \E p \in Callers : OutputStart(p)
    \/ \E p \in Callers, id \in DeviceIDs : InputCall(p, id)
    \/ \E p \in Callers : InputLookup(p)
    \/ \E p \in Callers : InputLock(p)
    \/ \E p \in Callers, ok \in BOOLEAN : InputOpen(p, ok)

-----------------------------------------------------------------------------
(* Listen.NoteOn, Listen.NoteOff and Listen.isNoteOnCount *)

\* The goroutines that deliver input events to the Listen.
Inputs == {1, 2}
\* The notes they deliver.
ListenNotes == { Pitched(60, 4), Pitched(62, 4) }

\* A delete that empties the map.
DeleteAll(f, k) == <<>>

\* delete(f, k)
Delete(f, k) == [x \in DOMAIN f \ {k} |-> f[x]]

\* A condition that asks only whether the note is on.
isNoteOn(nr, countCheck) == nr \in DOMAIN notesOn

\* isNoteOnCount(nr, countCheck), part_001 lines 94-101.
isNoteOnCount(nr, countCheck) ==
    LET ok == nr \in DOMAIN notesOn
    IN  ok /\ notesOn[nr] = countCheck

\* A NoteOn that forgets to count the change.
IncrementForgotten(count) == count

\* A NoteOn that counts a change twice.
IncrementTwice(count) == count + 2

\* The counter after NoteOn has counted one more change, line 76.
Increment(count) == count + 1

\* NoteOn, lines 72-80: under the lock the change is counted, the note is
\* recorded as on at that count and published in the variable.
NoteOnLocked(t, n) ==
    /\ lpc[t] = "idle"
    /\ Len(history) < MaxNoteEvents
    /\ lmutex = 0
    /\ lmutex' = t
    /\ noteChangeCount' = Increment(noteChangeCount)
    /\ llocal' = [llocal EXCEPT ![t] =
          [nr |-> MIDI(n), countCheck |-> noteChangeCount',
           occ |-> Len(history) + 1]]
    /\ notesOn' = Put(notesOn, MIDI(n), noteChangeCount')
    /\ slot' = n
    /\ history' = Append(history, [on |-> TRUE, nr |-> MIDI(n),
                                   count |-> noteChangeCount'])
    /\ lpc' = [lpc EXCEPT ![t] = "locked"]
    /\ UNCHANGED conds
    /\ UNCHANGED <<engineVars, registryVars>>

\* A NoteOn that keeps the lock while it calls the target.
UnlockedOnReturn(t) == t

\* l.mutex after the Unlock of line 83.
Unlocked(t) == 0

\* NoteOn, line 83: the lock is released.
NoteOnUnlock(t) ==
    /\ lpc[t] = "locked"
    /\ lmutex' = Unlocked(t)
    /\ lpc' = [lpc EXCEPT ![t] = "callback"]
    /\ UNCHANGED <<notesOn, noteChangeCount, slot, llocal, conds, history>>
    /\ UNCHANGED <<engineVars, registryVars>>

\* NoteOn, lines 85-91: if the target is Evaluatable it is evaluated with
\* the condition bound to (nr, countCheck).  Evaluate calls the condition
\* before it returns (synchronous), or keeps it for later.
NoteOnCallback(t, evaluatable, synchronous) ==
    /\ lpc[t] = "callback"
    /\ conds' = IF evaluatable THEN conds \cup {llocal[t]} ELSE conds
    /\ lpc' = [lpc EXCEPT ![t] =
                  IF evaluatable /\ synchronous THEN "evaluating" ELSE "idle"]
    /\ UNCHANGED <<lmutex, notesOn, noteChangeCount, slot, llocal, history>>
    /\ UNCHANGED <<engineVars, registryVars>>

\* The condition is called inside Evaluate: isNoteOnCount takes the read
\* lock (lines 95-96), which no writer may hold, and Evaluate and NoteOn
\* return.
CondEvaluated(t) ==
    /\ lpc[t] = "evaluating"
    /\ lmutex = 0
    /\ lpc' = [lpc EXCEPT ![t] = "idle"]
    /\ UNCHANGED <<lmutex, notesOn, noteChangeCount, slot, llocal, conds,
                   history>>
    /\ UNCHANGED <<engineVars, registryVars>>

\* NoteOff, lines 104-111.
NoteOff(t, n) ==
    /\ lpc[t] = "idle"
    /\ Len(history) < MaxNoteEvents
    /\ lmutex = 0
    /\ notesOn' = Delete(notesOn, MIDI(n))
    /\ history' = Append(history, [on |-> FALSE, nr |-> MIDI(n)])
    /\ UNCHANGED <<lmutex, noteChangeCount, slot, lpc, llocal, conds>>
    /\ UNCHANGED <<engineVars, registryVars>>

InitListen ==
    /\ lmutex = 0
    /\ notesOn = <<>>
    /\ noteChangeCount = 0
    /\ slot = Rest(0)
    /\ lpc = [t \in Inputs |-> "idle"]
    /\ llocal = [t \in Inputs |-> [nr |-> 0, countCheck |-> 0, occ |-> 0]]
    /\ conds = {}
    /\ history = <<>>

NextListen ==
    \/ \E t \in Inputs, n \in ListenNotes : NoteOnLocked(t, n)
    \/ \E t \in Inputs : NoteOnUnlock(t)
    \/ \E t \in Inputs, e, s \in BOOLEAN : NoteOnCallback(t, e, s)
    \/ \E t \in Inputs : CondEvaluated(t)
    \/ \E t \in Inputs, n \in ListenNotes : NoteOff(t, n)

-----------------------------------------------------------------------------
(* The loops: begin and end of the DSL, StartLoop, EndLoop and Plan of the
   LoopController *)

Loops == {1, 2}
\* What the variable of a Loop can be bound to.
Contents == {"A", "B"}
\* What a stopped Loop plays in a bar.
Silence == "none"
\* A variable handed to begin or end that holds no *core.Loop.
NotALoop == 0
\* The variables handed to one begin or end.
LoopVariables == SeqsUpTo(Loops \cup {NotALoop}, 2)

\* The Loops and their planning.
Controlled == [running |-> loopRunning, chains |-> chains, calls |-> loopCalls]

\* A StartLoop that arms a planning chain whatever the state of the Loop.
StartLoopAgain(st, l) ==
    [st EXCEPT !.running[l] = TRUE, !.chains[l] = @ + 1]

\* LoopController.StartLoop(l): a Running Loop is left as it is; a Stopped
\* one is Running and its planning is armed.
StartLoop(st, l) ==
    IF st.running[l] THEN st
    ELSE [st EXCEPT !.running[l] = TRUE, !.chains[l] = @ + 1]

\* LoopController.EndLoop(l): a Stopped Loop is left as it is; a Running one
\* is Stopped and its planning ends.
EndLoop(st, l) ==
    IF ~st.running[l] THEN st
    ELSE [st EXCEPT !.running[l] = FALSE, !.chains[l] = 0]

\* The record of a call: was tells whether the Loop was Running when it was
\* called, effective whether the call has changed the Loop or its planning.
Called(op, l, before, after) ==
    [op |-> op, l |-> l, was |-> before.running[l],
     effective |-> (after.running # before.running
                       \/ after.chains # before.chains)]

\* The body of the loop of begin, lines 625-631, for one variable.
BeginEach(st, v) ==
    IF v = NotALoop
    THEN [st EXCEPT !.calls = Append(@,
             [op |-> "warning", l |-> v, was |-> FALSE, effective |-> FALSE])]
    ELSE LET after == StartLoop(st, v)
         IN  [after EXCEPT !.calls =
                 Append(@, Called("StartLoop", v, st, after))]

\* The body of the loop of end, lines 650-656, for one variable.
EndEach(st, v) ==
    IF v = NotALoop
    THEN [st EXCEPT !.calls = Append(@,
             [op |-> "warning", l |-> v, was |-> FALSE, effective |-> FALSE])]
    ELSE LET after == EndLoop(st, v)
         IN  [after EXCEPT !.calls =
                 Append(@, Called("EndLoop", v, st, after))]

RECURSIVE BeginAll(_, _)
BeginAll(st, vs) ==
    IF vs = <<>> THEN st ELSE BeginAll(BeginEach(st, Head(vs)), Tail(vs))

RECURSIVE EndAll(_, _)
EndAll(st, vs) ==
    IF vs = <<>> THEN st ELSE EndAll(EndEach(st, Head(vs)), Tail(vs))

\* StopAllLoops(ctx): every Loop is ended.
StopAllLoops(st) == EndAll(st, <<1, 2>>)

Control(st) ==
    /\ Len(st.calls) <= MaxLoopCalls
    /\ loopRunning' = st.running
    /\ chains' = st.chains
    /\ loopCalls' = st.calls
    /\ UNCHANGED <<content, bars>>
    /\ UNCHANGED belowVars

\* eval["begin"], lines 623-634.
Begin(vs) == vs # <<>> /\ Control(BeginAll(Controlled, vs))

\* eval["end"], lines 644-659.
End(vs) ==
    Control(IF Len(vs) = 0 THEN StopAllLoops(Controlled)
                           ELSE EndAll(Controlled, vs))

\* The variable a Loop plays is bound to another value.
Assign(l, c) ==
    /\ c # content[l]
    /\ content' = [content EXCEPT ![l] = c]
    /\ UNCHANGED <<loopRunning, chains, loopCalls, bars>>
    /\ UNCHANGED belowVars

\* What a Loop plays in the last bar planned.
Playing(l) == IF bars = <<>> THEN Silence ELSE bars[Len(bars)][l]

\* A plan that keeps to what the Loop plays already.
ResolveStale(l) == IF Playing(l) = Silence THEN content[l] ELSE Playing(l)

\* Plan resolves the current value of what the Loop plays.
Resolve(l) == content[l]

\* LoopController.Plan at a bar boundary: for every Running Loop the value
\* is resolved and played in the next bar, and the plan is armed again.
Plan ==
    /\ Len(bars) < MaxBars
    /\ bars' = Append(bars, [l \in Loops |->
                  IF loopRunning[l] THEN Resolve(l) ELSE Silence])
    /\ UNCHANGED <<loopRunning, chains, loopCalls, content>>
    /\ UNCHANGED belowVars

InitLoops ==
    /\ loopRunning = [l \in Loops |-> FALSE]
    /\ chains = [l \in Loops |-> 0]
    /\ loopCalls = <<>>
    /\ content = [l \in Loops |-> "A"]
    /\ bars = <<>>

\* begin and end of the DSL.
NextLoop ==
    \/ \E vs \in LoopVariables : Begin(vs)
    \/ \E vs \in LoopVariables : End(vs)

\* One Loop that is begun, ended and given other values while it plays.
NextBars ==
    \/ Begin(<<1>>)
    \/ End(<<1>>)
    \/ \E l \in Loops, c \in Contents : Assign(l, c)
    \/ Plan

-----------------------------------------------------------------------------
(* play of the DSL *)

\* What play can be handed: a sequence, a number, and variables bound to them.
Value(kind, notes) == [kind |-> kind, notes |-> notes, bound |-> "none"]
Variable(v) == [kind |-> "variable", notes |-> v.notes, bound |-> v.kind]
Playables ==
    LET chord == <<Pitched(60, 16), Pitched(64, 8)>>
        tune == <<Rest(8), Pitched(62, 4)>>
        one == Value("sequence", <<chord>>)
        two == Value("sequence", <<tune, chord>>)
        three == Value("number", <<>>)
    IN  { one, two, three, Variable(one), Variable(three) }

\* getValue, lines 820-824: the Value() of a Valueable, else val itself.
getValue(val) ==
    IF val.kind = "variable" THEN Value(val.bound, val.notes) ELSE val

\* getSequenceable, lines 805-810.
getSequenceable(v) == [s |-> v.notes, ok |-> v.kind = "sequence"]

\* AudioDevice.Play(seq, bpm, beginAt): the end time of the last played
\* note.
DevicePlay(seq, b, at) ==
    at + SumSeq([k \in DOMAIN seq |->
                   Max({ actualDuration(wholeNoteDuration(b), seq[k][i]) :
                         i \in DOMAIN seq[k] })])

\* A play that hands every Play the moment it began with.
MomentKept(m, end) == m

\* The moment after a Play that has returned end, line 454.
MomentAfter(m, end) == end

evalUnchanged ==
    UNCHANGED <<now, inflight, stream, playVars, bpmVars, timelineVars,
                openVars, registryVars, listenVars, loopVars, closeVars,
                echoVars, walk>>

\* play is called, line 451: moment := time.Now().
EvalPlay(playables, b) ==
    /\ ~evalRunning
    /\ evalArgs = <<>>
    /\ playables # <<>>
    /\ evalRunning' = TRUE
    /\ evalArgs' = playables
    /\ evalAt' = 0
    /\ evalBpm' = b
    /\ evalBegan' = now
    /\ evalMoment' = now
    /\ UNCHANGED <<played, warned>>
    /\ evalUnchanged

\* One turn of the loop, lines 452-458: a sequenceable is played from
\* moment, which becomes what Play returns; of anything else a warning is
\* printed.
EvalPlayEach ==
    /\ evalRunning
    /\ evalAt < Len(evalArgs)
    /\ LET r == getSequenceable(getValue(evalArgs[evalAt + 1]))
           end == DevicePlay(r.s, evalBpm, evalMoment)
       IN  IF r.ok
           THEN /\ played' = Append(played,
                       [arg |-> evalAt + 1, s |-> r.s, bpm |-> evalBpm,
                        beginAt |-> evalMoment, endingAt |-> end])
                /\ evalMoment' = MomentAfter(evalMoment, end)
                /\ UNCHANGED warned
           ELSE /\ warned' = Append(warned, evalAt + 1)
                /\ UNCHANGED <<played, evalMoment>>
    /\ evalAt' = evalAt + 1
    /\ UNCHANGED <<evalRunning, evalArgs, evalBpm, evalBegan>>
    /\ evalUnchanged

\* Line 462: play returns nil.
EvalPlayReturn ==
    /\ evalRunning
    /\ evalAt = Len(evalArgs)
    /\ evalRunning' = FALSE
    /\ UNCHANGED <<evalArgs, evalAt, evalBpm, evalBegan, evalMoment, played,
                   warned>>
    /\ evalUnchanged

\* A second passes before play is called.
Pause ==
    /\ ~evalRunning
    /\ evalArgs = <<>>
    /\ now < MaxPauses * 1000 * Millisecond
    /\ now' = now + 1000 * Millisecond
    /\ UNCHANGED <<inflight, stream, playVars, bpmVars, timelineVars,
                   elsewhere>>

InitEval ==
    /\ evalRunning = FALSE
    /\ evalArgs = <<>>
    /\ evalAt = 0
    /\ evalBpm = DefaultBPM
    /\ evalBegan = 0
    /\ evalMoment = 0
    /\ played = <<>>
    /\ warned = <<>>

NextEval ==
    \/ \E playables \in SeqsUpTo(Playables, MaxPlayables), b \in {90, 120} :
          EvalPlay(playables, b)
    \/ EvalPlayEach
    \/ EvalPlayReturn
    \/ Pause

-----------------------------------------------------------------------------
(* DeviceRegistry.Close *)

\* No call of the registry is under way.
Quiet ==
    \A p \in Callers :
        \/ regpc[p] \in {"idle", "ended"}
        \/ regpc[p] = "returned" /\ regop[p] = "none"

\* The streams the streamRegistry has cached.
CachedStreams ==
    { <<"in", id>> : id \in DOMAIN streamsIn }
        \cup { <<"out", id>> : id \in DOMAIN streamsOut }

\* The input devices whose read loop is running.
ListeningDevices == { k \in DOMAIN inDevices : inDevices[k].listening }

closeUnchanged ==
    UNCHANGED <<now, inflight, stream, playVars, bpmVars, timelineVars,
                openVars, listenVars, loopVars, echoVars, evalVars, walk,
                regMutex, out, devices,
                streamsOut, opened, regpc, regid, regtmp, regret, inp,
                streamsIn, regop, regout, defaultOutputID, defaultInputID,
                isRunning, told, captureVars>>

\* Close is called, line 291: Terminate is deferred and the loop over d.in
\* begins.
CloseCall ==
    /\ closepc = "idle"
    /\ Quiet
    /\ closepc' = "stopping"
    /\ toStop' = DOMAIN inp
    /\ UNCHANGED <<released, terminated, inDevices>>
    /\ closeUnchanged

\* Lines 293-295: each.stopListener() for one more input device, in the
\* order the range over the map gives.
CloseStopListener(id) ==
    /\ closepc = "stopping"
    /\ id \in toStop
    /\ inDevices' = [inDevices EXCEPT ![inp[id]].listening = FALSE]
    /\ toStop' = toStop \ {id}
    /\ UNCHANGED <<closepc, released, terminated>>
    /\ closeUnchanged

\* Line 296: d.streamRegistry.close() releases every cached stream.
CloseStreams ==
    /\ closepc = "stopping"
    /\ toStop = {}
    /\ released' = released \cup CachedStreams
    /\ closepc' = "released"
    /\ UNCHANGED <<toStop, terminated, inDevices>>
    /\ closeUnchanged

\* A deferred call that runs as soon as it is deferred.
MayTerminateAtOnce == closepc = "stopping"

\* The deferred portmidi.Terminate() runs when Close returns, line 292.
MayTerminate == closepc = "released"

\* Close returns: the deferred portmidi.Terminate() is called.
Terminate ==
    /\ MayTerminate
    /\ ~terminated
    /\ terminated' = TRUE
    /\ closepc' = IF closepc = "released" THEN "closed" ELSE closepc
    /\ UNCHANGED <<toStop, released, inDevices>>
    /\ closeUnchanged

InitClose ==
    /\ closepc = "idle"
    /\ toStop = {}
    /\ released = {}
    /\ terminated = FALSE

\* The registry is in use: Close was not called.
InUse == closepc = "idle"

\* A caller that opens output devices, callers that start and stop
\* listening on input devices, and the Close of the registry after them.
NextClose ==
    \/ InUse /\ \E id \in DeviceIDs : OutputCall(3, id)
    \/ OutputLookup(3)
    \/ OutputLock(3)
    \/ \E ok \in BOOLEAN : OutputStream(3, ok)
    \/ OutputCache(3)
    \/ OutputStart(3)
    \/ InUse /\ \E p \in {1, 2}, startOrStop \in BOOLEAN :
                   ListenCall(p, p, startOrStop)
    \/ \E p \in {1, 2} : InputLookup(p)
    \/ \E p \in {1, 2} : InputLock(p)
    \/ \E p \in {1, 2}, ok \in BOOLEAN : InputOpen(p, ok)
    \/ \E p \in {1, 2} : ListenEnd(p)
    \/ \E p \in {1, 2} : ListenAdd(p)
    \/ \E p \in {1, 2} : CallAgain(p)
    \/ Tick
    \/ CloseCall
    \/ \E id \in DeviceIDs : CloseStopListener(id)
    \/ CloseStreams
    \/ Terminate

-----------------------------------------------------------------------------
(* Specifications *)

Init ==
    /\ InitEngine /\ InitRegistry /\ InitListen
    /\ InitLoops /\ InitClose /\ InitEval

\* The playback engine: concurrent Play calls.
Spec == Init /\ [][NextPlay]_vars

\* The playback engine: a Play call with echo and one without.
SpecEcho == Init /\ [][NextEcho]_vars

\* The playback engine: a Play call and changes of the BPM.
SpecBpm == Init /\ [][NextBpm]_vars

\* Open, new(Midi) and the calls on what they give.
InitDevice ==
    /\ InitNoMidi /\ InitPlayback /\ InitRegistry /\ InitListen
    /\ InitLoops /\ InitClose /\ InitEval
SpecDevice == InitDevice /\ [][NextDevice]_vars

\* The playback engine: Play, pedal changes and the timeline.
SpecPedal == Init /\ [][NextPedal]_vars

\* The timeline and the pedal changes scheduled on it.  The dispatch loop
\* and the clock keep running.
SpecTimeline ==
    /\ Init
    /\ [][NextTimeline]_vars
    /\ WF_vars(Fire)
    /\ WF_vars(Handled)
    /\ WF_vars(Tick)

\* The commands of the registry and its Listen, by concurrent callers.
NextAccess ==
    \/ \E p \in Callers, args \in CommandArgs : CommandCall(p, args)
    \/ \E p \in Callers : CommandEnd(p)
    \/ \E p \in Callers, id \in DeviceIDs : InfoLog(p, id)
    \/ \E p \in Callers : InfoEnd(p)
    \/ \E p \in Callers : MapFault(p)
    \/ \E p \in Callers, id \in DeviceIDs, startOrStop \in BOOLEAN :
          ListenCall(p, id, startOrStop)
    \/ \E p \in Callers : ListenEnd(p)
    \/ \E p \in Callers : ListenAdd(p)
    \/ Tick
    \/ \E p \in Callers : OutputLookup(p)
    \/ \E p \in Callers : OutputLock(p)
    \/ \E p \in Callers, ok \in BOOLEAN : OutputStream(p, ok)
    \/ \E p \in Callers : OutputCache(p)
    \/ \E p \in Callers : OutputStart(p)
    \/ \E p \in Callers : InputLookup(p)
    \/ \E p \in Callers : InputLock(p)
    \/ \E p \in Callers, ok \in BOOLEAN : InputOpen(p, ok)

SpecAccess == Init /\ [][NextAccess]_vars

\* The events a read loop hands to the Listen, at most.
MaxHeard == 2

\* The read loop of a started input device hands the events it reads to the
\* subscribers of its listener: the Listen receives them while subscribed.
Receives ==
    /\ Len(history) < MaxHeard
    /\ \E k \in DOMAIN inDevices :
          inDevices[k].listening /\ TheListen \in inDevices[k].subscribers

\* The events a read loop reads with nobody subscribed, at most.
MaxUnheard == 2

\* The read loop of a started input device reads an event while its listener
\* has no subscriber: nobody is told of it.
ReadUnheard ==
    /\ \E k \in DOMAIN inDevices :
          inDevices[k].listening /\ inDevices[k].subscribers = {}
    /\ unheard < MaxUnheard
    /\ unheard' = unheard + 1
    /\ UNCHANGED <<regMutex, out, devices, streamsOut, opened, regpc, regid,
                   regtmp, regret, inp, inDevices, streamsIn, regop, regout,
                   defaultOutputID, defaultInputID, isRunning, told,
                   inputCapability, wake>>
    /\ UNCHANGED <<engineVars, listenVars>>

\* One caller that calls Play and Stop of the Listen, one call after the
\* other, and the read loop of the input device.
NextToggle ==
    \/ \E hasInputCapability \in BOOLEAN : ListenPlay(1, hasInputCapability)
    \/ ListenStop(1)
    \/ InputLookup(1)
    \/ InputLock(1)
    \/ \E ok \in BOOLEAN : InputOpen(1, ok)
    \/ ListenEnd(1)
    \/ ListenAdd(1)
    \/ Tick
    \/ ReadUnheard
    \/ CallAgain(1)
    \/ Receives /\ \E n \in ListenNotes : NoteOnLocked(1, n)
    \/ NoteOnUnlock(1)
    \/ \E e, s \in BOOLEAN : NoteOnCallback(1, e, s)
    \/ CondEvaluated(1)
    \/ Receives /\ \E n \in ListenNotes : NoteOff(1, n)

SpecToggle == Init /\ [][NextToggle]_vars

\* The goroutines that call Play and Stop of the one Listen concurrently.
Togglers == {1, 2}

\* Two goroutines call Play and Stop of the Listen, each one call after the
\* other, while the read loop of the input device runs.
NextTogglers ==
    \/ \E p \in Togglers, hasInputCapability \in BOOLEAN :
          ListenPlay(p, hasInputCapability)
    \/ \E p \in Togglers : ListenStop(p)
    \/ \E p \in Togglers : InputLookup(p)
    \/ \E p \in Togglers : InputLock(p)
    \/ \E p \in Togglers, ok \in BOOLEAN : InputOpen(p, ok)
    \/ \E p \in Togglers : ListenEnd(p)
    \/ \E p \in Togglers : ListenAdd(p)
    \/ Tick
    \/ ReadUnheard
    \/ \E p \in Togglers : CallAgain(p)
    \/ Receives /\ \E n \in ListenNotes : NoteOnLocked(1, n)
    \/ NoteOnUnlock(1)
    \/ \E e, s \in BOOLEAN : NoteOnCallback(1, e, s)
    \/ CondEvaluated(1)
    \/ Receives /\ \E n \in ListenNotes : NoteOff(1, n)

SpecTogglers == Init /\ [][NextTogglers]_vars

\* Two goroutines access an output or an input device for the first time
\* while a third calls Reset and the info listing and the registry is
\* closed.
NextCache ==
    \/ \E p \in {1, 2}, id \in DeviceIDs : OutputCall(p, id)
    \/ \E p \in Callers : OutputLookup(p)
    \/ \E p \in Callers : OutputLock(p)
    \/ \E p \in Callers, ok \in BOOLEAN : OutputStream(p, ok)
    \/ \E p \in Callers : OutputCache(p)
    \/ \E p \in Callers : OutputStart(p)
    \/ \E p \in {1, 2}, id \in DeviceIDs : InputCall(p, id)
    \/ \E p \in {1, 2} : InputLookup(p)
    \/ \E p \in {1, 2} : InputLock(p)
    \/ \E p \in {1, 2}, ok \in BOOLEAN : InputOpen(p, ok)
    \/ ResetCall(3)
    \/ \E id \in DeviceIDs : ResetOutput(3, id)
    \/ ResetInputs(3)
    \/ \E id \in DeviceIDs : ResetStopListener(3, id)
    \/ ResetEnd(3)
    \/ CommandCall(3, <<>>)
    \/ CommandEnd(3)
    \/ \E id \in DeviceIDs : InfoLog(3, id)
    \/ InfoEnd(3)
    \/ MapFault(3)
    \/ CallAgain(3)
    \/ CloseCall
    \/ \E id \in DeviceIDs : CloseStopListener(id)
    \/ CloseStreams
    \/ Terminate

SpecCache == Init /\ [][NextCache]_vars

\* The registry is used and is closed.
SpecClose == Init /\ [][NextClose]_vars

\* play of the DSL.
SpecEval == Init /\ [][NextEval]_vars

\* The loops of the DSL.
SpecLoop == Init /\ [][NextLoop]_vars

\* A loop and its bars.
SpecBars == Init /\ [][NextBars]_vars

\* The device registry.
SpecRegistry == Init /\ [][NextRegistry]_vars

\* The input listener.
SpecListen == Init /\ [][NextListen]_vars

\* The input listener with a few events.
NextListenLive ==
    \/ Len(history) < MaxHeard
          /\ \E t \in Inputs, n \in ListenNotes : NoteOnLocked(t, n)
    \/ \E t \in Inputs : NoteOnUnlock(t)
    \/ \E t \in Inputs, e, s \in BOOLEAN : NoteOnCallback(t, e, s)
    \/ \E t \in Inputs : CondEvaluated(t)
    \/ Len(history) < MaxHeard
          /\ \E t \in Inputs, n \in ListenNotes : NoteOff(t, n)

\* The input listener, whose goroutines go on when they can.
SpecListenLive ==
    /\ Init
    /\ [][NextListenLive]_vars
    /\ \A t \in Inputs :
          /\ WF_vars(NoteOnUnlock(t))
          /\ WF_vars(\E e, s \in BOOLEAN : NoteOnCallback(t, e, s))
          /\ WF_vars(CondEvaluated(t))

-----------------------------------------------------------------------------
(* Properties *)

\* C1: at most one write to the output stream is in flight at any time,
\* whichever goroutine issues it: a note task of a Play call or the handler
\* of a pedal event fired by the timeline.
C1_OneWriteInFlight == Cardinality(inflight) <= 1

\* The callers of Output that have returned a device for id.
ReturnedDevice(id) ==
    { p \in Callers : regpc[p] = "returned" /\ regid[p] = id /\ ~regret[p].err }

\* C2: whatever the number of concurrent first calls of Output(id), the
\* hardware stream of id is opened at most once, at most one OutputDevice is
\* created for id, and all callers are returned the same device.
C2_OutputOpensOnce ==
    \A id \in DeviceIDs :
        /\ Cardinality({ k \in DOMAIN opened : opened[k] = id }) <= 1
        /\ Cardinality({ k \in DOMAIN devices : devices[k].id = id }) <= 1
        /\ \A p, q \in ReturnedDevice(id) : regret[p].dev = regret[q].dev

\* The last NoteOn or NoteOff of pitch nr that has taken effect (0: none).
LastEventOf(nr) ==
    Max({0} \cup { k \in DOMAIN history : history[k].nr = nr })

\* C3: the condition NoteOn captured for (nr, countCheck) is true exactly
\* while that NoteOn is the last event of its pitch: it is false once a
\* NoteOff of the pitch has followed, and stays false when the pitch is
\* struck again, while the condition of the new NoteOn is true.
C3_GuardOfLatestNoteOn ==
    \A g \in conds :
        isNoteOnCount(g.nr, g.countCheck) <=> (LastEventOf(g.nr) = g.occ)

\* A pitch was struck, released and struck again; the first condition is
\* false and the second is true.
C3_Witness ==
    \E g1, g2 \in conds :
        /\ g1.nr = g2.nr
        /\ g1.occ < g2.occ
        /\ \E k \in DOMAIN history :
              /\ g1.occ < k /\ k < g2.occ
              /\ history[k] = [on |-> FALSE, nr |-> g1.nr]
        /\ ~isNoteOnCount(g1.nr, g1.countCheck)
        /\ isNoteOnCount(g2.nr, g2.countCheck)

\* The events the timeline has been handed and still holds or has fired.
Known ==
    { [id |-> pending[k].id, at |-> pending[k].at, ev |-> pending[k].ev] :
         k \in DOMAIN pending }
    \cup { [id |-> fired[k].id, at |-> fired[k].at, ev |-> fired[k].ev] :
         k \in DOMAIN fired }
    \cup (IF handling = NoEvent THEN {}
          ELSE { [id |-> handling.id, at |-> handling.at, ev |-> handling.ev] })

KnownIds == { e.id : e \in Known }
EventById(id) == CHOOSE e \in Known : e.id = id
FiredIds == { fired[k].id : k \in DOMAIN fired }
FiredPos(id) == CHOOSE k \in DOMAIN fired : fired[k].id = id

IsTimelineWrite(e) == e.by = TimelineTask
\* The messages the pedal events have written, in the order of the stream.
PedalWrites == SelectSeq(stream, IsTimelineWrite)

\* C4: a group of one note with the up-then-down marker schedules exactly
\* two events, at the moment of the note, an up event first and a down
\* event next; the Control-Change of the up event (value 0) is written
\* before that of the down event (value 127), and both are fired before any
\* event scheduled at a later instant.
C4_UpThenDown ==
    \A k \in DOMAIN pedalLog :
        LET r == pedalLog[k]
        IN  r.group = <<Pedal("updown")>> =>
              /\ r.count = 2
              /\ {r.first, r.first + 1} \subseteq KnownIds
              /\ LET up == EventById(r.first)
                     down == EventById(r.first + 1)
                 IN  /\ up.at = r.moment /\ down.at = r.moment
                     /\ ~up.ev.goingDown /\ down.ev.goingDown
                     /\ down.id \in FiredIds =>
                          /\ up.id \in FiredIds
                          /\ FiredPos(up.id) < FiredPos(down.id)
                          /\ PedalWrites[FiredPos(up.id)].data2 = 0
                          /\ PedalWrites[FiredPos(down.id)].data2 = 127
                     /\ \A e \in Known :
                          (e.at > r.moment /\ e.id \in FiredIds) =>
                             /\ {up.id, down.id} \subseteq FiredIds
                             /\ FiredPos(up.id) < FiredPos(e.id)
                             /\ FiredPos(down.id) < FiredPos(e.id)

\* An up-then-down pair has been fired, and after it an event of a later
\* instant that was scheduled before the pair.
C4_Witness ==
    \E k \in DOMAIN pedalLog :
        /\ pedalLog[k].group = <<Pedal("updown")>>
        /\ {pedalLog[k].first, pedalLog[k].first + 1} \subseteq FiredIds
        /\ \E j \in DOMAIN fired :
              /\ fired[j].at > pedalLog[k].moment
              /\ fired[j].id < pedalLog[k].first

\* C5: of two events that waited on the timeline together, the one with the
\* earlier time is fired first and, when the times are equal, the one
\* submitted first.
C5_FiringOrder ==
    \A i, j \in DOMAIN fired :
        (i < j /\ fired[j].id <= fired[i].seen) =>
            \/ fired[i].at < fired[j].at
            \/ fired[i].at = fired[j].at /\ fired[i].id < fired[j].id

\* Two events of one instant were fired in the order of their submission,
\* and after them an event of a later instant that was submitted before them.
C5_Witness ==
    /\ Len(fired) >= 3
    /\ fired[1].at = fired[2].at
    /\ fired[1].id < fired[2].id
    /\ fired[3].at > fired[2].at
    /\ fired[3].id < fired[1].id

\* Every event handed to Schedule is waiting, being handled or fired, and
\* is so once; no event was fired before its time.
OnceEach ==
    /\ Cardinality(KnownIds) = Len(pending) + Len(fired)
                                 + (IF handling = NoEvent THEN 0 ELSE 1)
    /\ KnownIds = 1..submitted
    /\ \A k \in DOMAIN fired : fired[k].when >= fired[k].at

\* Schedule returns with its event waiting: no event is fired by the step
\* that schedules it.
ScheduleDoesNotWait ==
    submitted' > submitted =>
        /\ fired' = fired
        /\ handling' = handling
        /\ \A id \in (submitted + 1)..submitted' :
              \E k \in DOMAIN pending' : pending'[k].id = id

\* C6: every event handed to Schedule is fired in the end (again and again
\* all events submitted so far have been fired), once, and not before its
\* time; and Schedule does not wait for it to fire.
C6_FiredExactlyOnce ==
    /\ []OnceEach
    /\ [][ScheduleDoesNotWait]_vars
    /\ []<>(FiredIds = 1..submitted)

\* An event scheduled for a later moment was fired at that moment.
C6_Witness ==
    \E k \in DOMAIN fired : fired[k].at > 0 /\ fired[k].when = fired[k].at

\* The duration factor times the whole-note duration, for the longest note
\* of group g, and the sum of these over the notes of g.
LongestOf(w, g) ==
    IF g = <<>> THEN 0 ELSE (Max({ g[i].f16 : i \in DOMAIN g }) * w) \div 16
SumOf(w, g) == SumSeq([i \in DOMAIN g |-> (g[i].f16 * w) \div 16])

\* The time at which group k of call c was over: the next group was
\* started or Play returned.
GroupEnd(c, k) == IF k < Len(starts[c]) THEN starts[c][k + 1] ELSE endingAt[c]
GroupsOver(c) ==
    { k \in DOMAIN starts[c] : k < Len(starts[c]) \/ callpc[c] = "done" }

\* C7: the time from the start of a group to the start of the next one is
\* the duration of its longest note, not the sum of the durations of its
\* notes.
C7_GroupLastsItsLongestNote ==
    \A c \in Calls : \A k \in GroupsOver(c) :
        LET g == callseq[c][k]
            realized == GroupEnd(c, k) - starts[c][k]
        IN  /\ realized = LongestOf(whole[c], g)
            /\ Len(g) > 1 => realized # SumOf(whole[c], g)

\* A Play call at 120 bpm is past a group of a whole note and a half note,
\* which took 2000 ms.
C7_Witness ==
    \E c \in Calls :
        /\ 1 \in GroupsOver(c)
        /\ callseq[c][1] = <<Pitched(60, 16), Pitched(64, 8)>>
        /\ GroupEnd(c, 1) - starts[c][1] = 2000 * Millisecond

\* C8: Play returns at beginAt plus the sum, over its groups, of the
\* duration of the longest note of the group.
C8_EndingAt ==
    \A c \in Calls :
        callpc[c] = "done" =>
            endingAt[c] = beginAt[c]
                + SumSeq([k \in DOMAIN callseq[c] |->
                             LongestOf(whole[c], callseq[c][k])])

\* A Play call of two groups, of 2000 ms and 1000 ms at 120 bpm, that did
\* not begin at time 0 has returned 3000 ms after it began.
C8_Witness ==
    \E c \in Calls :
        /\ callpc[c] = "done"
        /\ Len(callseq[c]) = 2
        /\ beginAt[c] > 0
        /\ endingAt[c] = beginAt[c] + 3000 * Millisecond

PitchedIn(g) == { i \in DOMAIN g : ~IsRest(g[i]) }

\* C9: when a note of a group after the first is written, every pitched note
\* of the group before has had its Note-Off written and every note of that
\* group, rests included, has lasted its time.
C9_JoinBeforeNextGroup ==
    \A k \in DOMAIN stream :
        LET c == stream[k].by[1]
            g == stream[k].by[2]
        IN  (c \in Calls /\ g > 1) =>
              /\ \A i \in PitchedIn(callseq[c][g - 1]) :
                    \E j \in 1..(k - 1) :
                       /\ stream[j].by = <<c, g - 1, i>>
                       /\ stream[j].status = noteOff
              /\ stream[k].at >= starts[c][g - 1]
                                   + LongestOf(whole[c], callseq[c][g - 1])

\* The Note-On of a note of a second group has been written, after a first
\* group with a pitched note.
C9_Witness ==
    \E k \in DOMAIN stream :
        /\ stream[k].by[1] \in Calls
        /\ stream[k].by[2] = 2
        /\ stream[k].status = noteOn
        /\ PitchedIn(callseq[stream[k].by[1]][1]) # {}

WritesOf(c, g, i) == { k \in DOMAIN stream : stream[k].by = <<c, g, i>> }

\* C10: a rest causes no write; a pitched note causes one Note-On (0x90, its
\* MIDI number, 100) and then, its duration later, one Note-Off (0x80, the
\* same number, 100), and nothing else; when Play has returned each of its
\* pitched notes has had both.
C10_NoteOnThenNoteOff ==
    \A c \in Calls : \A g \in 1..gi[c] : \A i \in DOMAIN callseq[c][g] :
        LET n == callseq[c][g][i]
            ons == { k \in WritesOf(c, g, i) : stream[k].status = noteOn }
            offs == { k \in WritesOf(c, g, i) : stream[k].status = noteOff }
        IN  IF IsRest(n)
            THEN WritesOf(c, g, i) = {}
            ELSE /\ WritesOf(c, g, i) = ons \cup offs
                 /\ Cardinality(ons) <= 1
                 /\ Cardinality(offs) <= 1
                 /\ \A k \in WritesOf(c, g, i) :
                       stream[k].data1 = MIDI(n) /\ stream[k].data2 = 100
                 /\ \A k \in offs : \E j \in ons :
                       /\ j < k
                       /\ stream[k].at = stream[j].at + (n.f16 * whole[c]) \div 16
                 /\ callpc[c] = "done" =>
                       Cardinality(ons) = 1 /\ Cardinality(offs) = 1

\* A Play call with a rest and pitched notes has returned.
C10_Witness ==
    \E c \in Calls :
        /\ callpc[c] = "done"
        /\ \E g \in DOMAIN callseq[c] :
              /\ PitchedIn(callseq[c][g]) # {}
              /\ PitchedIn(callseq[c][g]) # DOMAIN callseq[c][g]

\* A group of exactly one note that carries a pedal marker.
IsPedalGroup(g) == Len(g) = 1 /\ g[1].pedal # "none"

\* C11: a group of exactly one note with a pedal marker (down, up or
\* up-then-down) is reported as handled by handledPedalChange, so that it is
\* not rendered as a note, and its events are scheduled at the moment of the
\* note; a group of no note or of more than one note is not handled and
\* schedules nothing.
C11_PedalGroupIsHandled ==
    \A k \in DOMAIN pedalLog :
        LET r == pedalLog[k]
        IN  /\ IsPedalGroup(r.group) =>
                 /\ r.handled
                 /\ r.count >= 1
                 /\ \A id \in r.first..(r.first + r.count - 1) :
                       id \in KnownIds /\ EventById(id).at = r.moment
            /\ Len(r.group) # 1 => ~r.handled /\ r.count = 0

\* C12: Play on a disabled device does nothing: no write reaches the
\* stream, no note task is started, the call returns at the time it was
\* made, and nothing faults.
C12_PlayOnDisabledIsNoOp ==
    (handle = "zero" /\ ~enabled) =>
        /\ ~fault
        /\ stream = <<>>
        /\ inflight = {}
        /\ \A c \in Calls :
              /\ callpc[c] \in {"idle", "done"}
              /\ tasks[c] = <<>>
              /\ starts[c] = <<>>
              /\ gi[c] = 0
              /\ endingAt[c] = beginAt[c]

\* Play was called on a disabled device and has returned.
C12_Witness == handle = "zero" /\ ~enabled /\ callpc[1] = "done"

\* C13: a failed Open leaves the caller with a device in the disabled
\* state, never without a device, and no later call on it faults or writes
\* to a stream.
C13_UsableAfterOpenFailure ==
    /\ handle # "nil"
    /\ ~fault
    /\ ~enabled => stream = <<>> /\ inflight = {}

\* The step in which caller p returns an error from Output or Input.
ReturnsError(p) == regret'[p].err /\ ~regret[p].err

\* C15: when the stream cannot be opened, Output(id) and Input(id) return no
\* device and an error that carries the name of the operation and the id;
\* the caches of devices and of streams are left as they were, with no entry
\* for id, so that a later call opens the stream again; and the exclusive
\* lock is released.
C15_OpenFailureIsReturned ==
    [][\A p \in Callers :
          ReturnsError(p) =>
             LET op == IF regpc[p] = "locked" THEN "Output" ELSE "Input"
             IN  /\ regpc[p] \in {"locked", "ilocked"}
                 /\ regret'[p] = [dev |-> 0, err |-> TRUE, op |-> op,
                                  id |-> regid[p]]
                 /\ regpc'[p] = "returned"
                 /\ <<out, inp, devices, inDevices>>' =
                       <<out, inp, devices, inDevices>>
                 /\ <<streamsOut, streamsIn, opened>>' =
                       <<streamsOut, streamsIn, opened>>
                 /\ op = "Output" =>
                       regid[p] \notin DOMAIN out \cup DOMAIN streamsOut
                 /\ op = "Input" =>
                       regid[p] \notin DOMAIN inp \cup DOMAIN streamsIn
                 /\ regMutex = p /\ regMutex' = 0]_vars

\* Output(id) has failed for one caller and, for another caller, opened the
\* stream and returned a device of the same id; Input has failed for a third.
C15_Witness ==
    \E id \in DeviceIDs : \E p, q \in Callers :
        /\ regpc[p] = "returned" /\ regret[p].err /\ regid[p] = id
        /\ regret[p].op = "Output"
        /\ regpc[q] = "returned" /\ ~regret[q].err /\ regid[q] = id
        /\ regret[q].dev \in DOMAIN devices
        /\ devices[regret[q].dev].id = id
        /\ id \in DOMAIN out
        /\ \E r \in Callers :
              regpc[r] = "returned" /\ regret[r].err /\ regret[r].op = "Input"
        /\ regMutex = 0

\* C14: when Output or Input fails inside Command "echo", the listing of
\* Command without arguments, or Listen, the operation ends with a warning
\* and without a fault, and the registry goes on serving calls.
C14_AccessFailureIsAWarning ==
    \A p \in Callers :
        /\ regout[p] # "fault"
        /\ (/\ regpc[p] = "ended"
            /\ regop[p] \in {"echo", "info", "listenStart", "listenStop"}
            /\ regret[p].err) => regout[p] = "warning"

\* C16: the BPM is always positive: an assignment of a positive value makes
\* it that value, an assignment of zero or of a negative value leaves it as
\* it was.
C16_BpmStaysPositive ==
    /\ bpm > 0
    /\ bpmSet.arg > 0 => bpm = bpmSet.arg
    /\ bpmSet.arg <= 0 => bpm = bpmSet.before

\* A negative value was assigned when the BPM was 90, and the BPM is 90.
C16_Witness == bpmSet.arg < 0 /\ bpmSet.before = 90 /\ bpm = 90

\* w milliseconds is 240000 / b milliseconds rounded to the nearest whole
\* number, a half rounded up.
IsNearest(w, b) ==
    /\ 2 * (w * b - 4 * 60000) <= b
    /\ 2 * (4 * 60000 - w * b) < b

\* The pairs of a Note-On and the Note-Off of the same note in the stream.
OnOffPairs ==
    { <<j, k>> \in (DOMAIN stream) \X (DOMAIN stream) :
         /\ stream[j].by = stream[k].by
         /\ stream[j].by[1] \in Calls
         /\ stream[j].status = noteOn
         /\ stream[k].status = noteOff }

\* C17: Play takes as the duration of a whole note 4 x 60000 / bpm
\* milliseconds, rounded to a whole number of milliseconds, and a note of
\* duration factor f lasts f times that; at 120 bpm the whole note lasts
\* 2000 ms and a note of factor 1/4 lasts 500 ms.
C17_WholeNoteDuration ==
    /\ [][\A c \in Calls :
            (callpc[c] = "idle" /\ callpc'[c] = "loop") =>
               /\ whole'[c] % Millisecond = 0
               /\ IsNearest(whole'[c] \div Millisecond, bpm)
               /\ bpm = 120 => whole'[c] = 2000 * Millisecond]_vars
    /\ [](\A pair \in OnOffPairs :
            LET on == stream[pair[1]]
                off == stream[pair[2]]
                c == on.by[1]
                n == callseq[c][on.by[2]][on.by[3]]
            IN  /\ 16 * (off.at - on.at) = n.f16 * whole[c]
                /\ (whole[c] = 2000 * Millisecond /\ n.f16 = 4) =>
                      off.at - on.at = 500 * Millisecond)

\* A note of factor 1/4 played at 120 bpm has had its Note-On and, 500 ms
\* later, its Note-Off.
C17_Witness ==
    \E pair \in OnOffPairs :
        /\ whole[stream[pair[1]].by[1]] = 2000 * Millisecond
        /\ stream[pair[1]].data1 = 62
        /\ stream[pair[2]].at - stream[pair[1]].at = 500 * Millisecond

\* The NoteOn calls among the calls that have taken effect.
NoteOns == { k \in DOMAIN history : history[k].on }

\* C18: the change counter is the number of NoteOn calls so far: each NoteOn
\* adds one to it and nothing else changes it; the k-th NoteOn obtains the
\* value k, so no two NoteOn calls obtain the same value; and the entry of
\* every pitch that is on is the value obtained by the last NoteOn of that
\* pitch, so the entries differ from each other and lie in 1..counter.
C18_CounterCountsNoteOns ==
    /\ noteChangeCount = Cardinality(NoteOns)
    /\ \A k \in NoteOns :
          history[k].count = Cardinality({ j \in NoteOns : j <= k })
    /\ \A t \in Inputs :
          lpc[t] # "idle" =>
             /\ llocal[t].occ \in NoteOns
             /\ llocal[t].countCheck = history[llocal[t].occ].count
    /\ \A m \in DOMAIN notesOn :
          /\ LastEventOf(m) \in NoteOns
          /\ notesOn[m] = history[LastEventOf(m)].count
          /\ notesOn[m] \in 1..noteChangeCount
    /\ \A m1, m2 \in DOMAIN notesOn : m1 # m2 => notesOn[m1] # notesOn[m2]

\* Two goroutines are inside NoteOn at once, a pitch was struck twice and
\* another pitch is on as well.
C18_Witness ==
    /\ \A t \in Inputs : lpc[t] # "idle"
    /\ Cardinality(DOMAIN notesOn) = 2
    /\ noteChangeCount >= 3

\* The step is a NoteOff of pitch nr.
IsNoteOffOf(nr) ==
    /\ Len(history') = Len(history) + 1
    /\ history'[Len(history')] = [on |-> FALSE, nr |-> nr]

\* C19: NoteOff removes the entry of the pitch of its note and nothing else:
\* the counter, the entries of the other pitches and the published variable
\* stay as they were, no condition is handed to a callback, and when the
\* pitch is not on nothing changes at all.
C19_NoteOffOnlyRemovesItsPitch ==
    [][\A n \in ListenNotes :
          IsNoteOffOf(MIDI(n)) =>
             /\ noteChangeCount' = noteChangeCount
             /\ slot' = slot
             /\ conds' = conds
             /\ <<lmutex, lpc, llocal>>' = <<lmutex, lpc, llocal>>
             /\ DOMAIN notesOn' = DOMAIN notesOn \ {MIDI(n)}
             /\ \A m \in DOMAIN notesOn' : notesOn'[m] = notesOn[m]
             /\ MIDI(n) \notin DOMAIN notesOn => notesOn' = notesOn]_vars

\* A NoteOff of a pitch that was on has taken effect while another pitch
\* stays on, and so has a NoteOff of a pitch that was not on.
C19_Witness ==
    /\ notesOn # <<>>
    /\ \E k \in DOMAIN history :
          /\ ~history[k].on
          /\ \E j \in NoteOns : j < k /\ history[j].nr = history[k].nr
    /\ \E k \in DOMAIN history :
          /\ ~history[k].on
          /\ \A j \in NoteOns : j < k => history[j].nr # history[k].nr

\* The step is a call of Play or Stop (op) of the Listen by caller p.
IsCallOf(p, op) == regpc[p] = "idle" /\ regpc'[p] # "idle" /\ regop'[p] = op

\* The input devices that have the Listen among their subscribers.
SubscribedOn ==
    { k \in DOMAIN inDevices : TheListen \in inDevices[k].subscribers }

\* C20: Play on a Listen that is listening and Stop on one that is not
\* return nil, leave the Listen as it is and do not call the device's
\* Listen; so, for calls made one after the other, the device is told start
\* and stop in turn, beginning with start, the Listen is running exactly
\* when the last it told was start, and it is subscribed at most once.
C20_ToggleIsIdempotent ==
    /\ [][\A p \in Callers :
            /\ (IsCallOf(p, "play") /\ isRunning) =>
                  /\ regout'[p] = "nil" /\ regpc'[p] = "ended"
                  /\ isRunning' /\ told' = told /\ inDevices' = inDevices
            /\ (IsCallOf(p, "stop") /\ ~isRunning) =>
                  /\ regout'[p] = "nil" /\ regpc'[p] = "ended"
                  /\ ~isRunning' /\ told' = told /\ inDevices' = inDevices]_vars
    /\ [](/\ \A k \in DOMAIN told : told[k] = (k % 2 = 1)
          /\ isRunning = (told # <<>> /\ told[Len(told)])
          /\ Cardinality(SubscribedOn) <= 1)

\* After a start, a stop and a start, Play was called on the listening and
\* subscribed Listen and has returned nil without a call of the device.
C20_Witness ==
    /\ told = <<TRUE, FALSE, TRUE>>
    /\ isRunning
    /\ SubscribedOn # {}
    /\ regpc[1] = "ended" /\ regop[1] = "play" /\ regout[1] = "nil"
    /\ regid[1] = 0

\* C21: Play on a Listen that is not listening, with a device that lacks the
\* input capability, returns an error, leaves the Listen not listening, does
\* not call the device's Listen and subscribes the Listen nowhere.
C21_PlayWithoutInputFails ==
    [][\A p \in Callers :
          (IsCallOf(p, "play") /\ ~isRunning /\ ~inputCapability') =>
              /\ regout'[p] = "error" /\ regpc'[p] = "ended"
              /\ ~isRunning'
              /\ told' = told
              /\ inDevices' = inDevices /\ inp' = inp]_vars

\* Play has failed on a device without the input capability, after the
\* Listen had been started and stopped on a capable one.
C21_Witness ==
    /\ regpc[1] = "ended" /\ regop[1] = "play" /\ regout[1] = "error"
    /\ ~inputCapability
    /\ ~isRunning
    /\ told = <<TRUE, FALSE>>
    /\ SubscribedOn = {}

\* Caller p has started a listener and sleeps before it adds who.
InGrace(p) == regpc[p] = "sleeping"

\* The step adds the Listen to the subscribers of input device k.
IsAddOn(k) ==
    /\ TheListen \notin inDevices[k].subscribers
    /\ TheListen \in inDevices'[k].subscribers

\* C22: a start of listening starts the read loop and then sleeps for 200 ms;
\* the subscriber is added only by a caller whose sleep has run out, on a
\* device whose read loop is started; and while the caller sleeps the
\* subscriber is not subscribed and none of its NoteOn and NoteOff is called.
C22_AddedAfterGrace ==
    /\ [][\A p \in Callers :
            (InGrace(p)' /\ ~InGrace(p)) =>
                /\ inDevices'[regret[p].dev].listening
                /\ wake'[p] = now + 200 * Millisecond]_vars
    /\ [][\A k \in DOMAIN inDevices :
            IsAddOn(k) =>
                /\ inDevices[k].listening
                /\ \E p \in Callers :
                      /\ InGrace(p) /\ regret[p].dev = k
                      /\ now >= wake[p]]_vars
    /\ [][(\E p \in Callers : InGrace(p)) => history' = history]_vars
    /\ [](\A p \in Callers :
            InGrace(p) => TheListen \notin inDevices[regret[p].dev].subscribers)

\* The read loop has read an event during the grace period, which nobody
\* was told of; the Listen was added at the end of the grace period and has
\* since been told of an event.
C22_Witness ==
    /\ unheard > 0
    /\ now = 200 * Millisecond
    /\ SubscribedOn # {}
    /\ told = <<TRUE>>
    /\ history # <<>>

\* The last call that has changed Loop l or its planning, or 0.
LastEffective(l) ==
    LET E == { k \in DOMAIN loopCalls :
                  loopCalls[k].l = l /\ loopCalls[k].effective }
    IN  IF E = {} THEN 0 ELSE Max(E)

\* C23: a Loop is Stopped or Running; StartLoop on a Running Loop and
\* EndLoop on a Stopped one change neither the Loop nor its planning; a Loop
\* is Running exactly when the last call that changed it was a StartLoop,
\* and it has one planning chain when Running and none when Stopped.
C23_LoopIsStoppedOrRunning ==
    /\ \A l \in Loops : loopRunning[l] \in BOOLEAN
    /\ \A k \in DOMAIN loopCalls :
          /\ (loopCalls[k].op = "StartLoop" /\ loopCalls[k].was)
                => ~loopCalls[k].effective
          /\ (loopCalls[k].op = "EndLoop" /\ ~loopCalls[k].was)
                => ~loopCalls[k].effective
    /\ \A l \in Loops :
          /\ loopRunning[l] =
                (/\ LastEffective(l) # 0
                 /\ loopCalls[LastEffective(l)].op = "StartLoop")
          /\ chains[l] = IF loopRunning[l] THEN 1 ELSE 0

\* Loop 1 was started, started again while Running and is Running; Loop 2,
\* never started, was ended.
C23_Witness ==
    /\ Len(loopCalls) = 3
    /\ \E j, k \in DOMAIN loopCalls :
          /\ j < k
          /\ loopCalls[j].op = "StartLoop" /\ loopCalls[j].l = 1
          /\ loopCalls[j].effective
          /\ loopCalls[k].op = "StartLoop" /\ loopCalls[k].l = 1
          /\ loopCalls[k].was
    /\ \E k \in DOMAIN loopCalls :
          loopCalls[k].op = "EndLoop" /\ loopCalls[k].l = 2
    /\ loopRunning[1] /\ ~loopRunning[2]
    /\ chains[1] = 1

Issued(c) ==
    { [status |-> stream[k].status, data1 |-> stream[k].data1,
       data2 |-> stream[k].data2, group |-> stream[k].by[2],
       note |-> stream[k].by[3], after |-> stream[k].at - beginAt[c]] :
      k \in { j \in DOMAIN stream : stream[j].by[1] = c } }

\* The times, since the call, at which Play call c has started its groups.
StartsAfter(c) == [k \in DOMAIN starts[c] |-> starts[c][k] - beginAt[c]]

\* C26: of two Play calls of the same sequence at the same BPM, one with
\* echo and one without, the one with echo has printed every group and the
\* end of the line and the other nothing; both have written the same
\* messages for the same notes at the same times after the call, have
\* started their groups at the same times after the call, and have returned
\* the same time after the call.
C26_EchoIsASideChannel ==
    \A c, d \in Calls :
        (/\ callpc[c] = "done" /\ callpc[d] = "done"
         /\ callseq[c] = callseq[d] /\ whole[c] = whole[d]
         /\ echo[c] /\ ~echo[d]) =>
            /\ Len(echoed[c]) = Len(callseq[c]) + 1
            /\ echoed[d] = <<>>
            /\ Issued(c) = Issued(d)
            /\ StartsAfter(c) = StartsAfter(d)
            /\ endingAt[c] - beginAt[c] = endingAt[d] - beginAt[d]

\* Two groups, the first of two notes, were played without echo and then
\* again with echo, which has printed the two groups and the end of the
\* line; each call has written its four messages.
C26_Witness ==
    /\ callpc[1] = "done" /\ callpc[2] = "done"
    /\ ~echo[1] /\ echo[2]
    /\ Len(callseq[1]) = 2 /\ Len(callseq[1][1]) = 2
    /\ callseq[2] = callseq[1]
    /\ Len(echoed[2]) = 3 /\ echoed[2][1].what = "group"
    /\ Cardinality(Issued(1)) >= 4
    /\ beginAt[2] > 0

\* Goroutine t is inside the target's Evaluate, called by NoteOn.
InCallback(t) == lpc[t] \in {"callback", "evaluating"}

\* C27: NoteOn holds the lock neither when it calls the target nor while
\* the target runs, so that the lock, when the condition or another
\* goroutine's NoteOn or NoteOff wants it, is free or held by another
\* goroutine inside the locked part of its NoteOn; and a NoteOn that has
\* taken the lock returns.
C27_CallbackOutsideTheLock ==
    /\ [](\A t \in Inputs :
            InCallback(t) =>
                /\ lmutex # t
                /\ lmutex # 0 => lpc[lmutex] = "locked")
    /\ \A t \in Inputs : (lpc[t] = "locked") ~> (lpc[t] = "idle")

\* While goroutine 1 is inside Evaluate, which is about to call its
\* condition, goroutine 2 has taken the lock for its NoteOn.
C27_Witness ==
    /\ lpc[1] = "evaluating"
    /\ lpc[2] = "locked" /\ lmutex = 2
    /\ llocal[1].nr = llocal[2].nr

\* C28: Play computes the duration of a whole note when it begins, from the
\* BPM of that moment, and keeps it until it returns; a change of the BPM
\* changes neither it nor the sleep of a note that is being played; and
\* every note that sleeps, of whatever group, sleeps its factor times that
\* duration from the start of its group.
C28_BpmChangeSparesTheCall ==
    /\ [][\A c \in Calls :
            /\ (callpc[c] = "idle" /\ callpc'[c] = "loop") =>
                  whole'[c] = wholeNoteDuration(bpm)
            /\ callpc[c] = "loop" => whole'[c] = whole[c]]_vars
    /\ [][bpm' # bpm =>
            whole' = whole /\ tasks' = tasks /\ stream' = stream]_vars
    /\ [](\A c \in Calls :
            callpc[c] = "loop" =>
                \A i \in DOMAIN tasks[c] :
                    tasks[c][i].pc = "sleep" =>
                        16 * (tasks[c][i].wake - starts[c][gi[c]])
                            = callseq[c][gi[c]][i].f16 * whole[c])

\* The call has begun at 120 bpm; the BPM is 90 now, and a note of the
\* second group sleeps its factor times 2000 ms.
C28_Witness ==
    /\ callpc[1] = "loop" /\ gi[1] = 2
    /\ bpmSet.arg = 90 /\ bpmSet.before = 120 /\ bpm = 90
    /\ whole[1] = 2000 * Millisecond
    /\ whole[1] # wholeNoteDuration(bpm)
    /\ \E i \in DOMAIN tasks[1] :
          /\ tasks[1][i].pc = "sleep"
          /\ tasks[1][i].wake =
                starts[1][2] + (callseq[1][2][i].f16 * 2000 * Millisecond) \div 16

\* The arguments play has been through that are sequenceable / are not.
Sequenceables ==
    { k \in 1..evalAt : getSequenceable(getValue(evalArgs[k])).ok }
Others == (1..evalAt) \ Sequenceables

\* C29: play hands the device's Play its sequenceable arguments in the
\* order of the arguments, the first at the time play was called and each
\* other at the time the Play before it has returned; of every other
\* argument it warns, and the moment it goes on with is then as before.
C29_PlayedBackToBack ==
    /\ \A k \in DOMAIN played :
          /\ played[k].beginAt =
                IF k = 1 THEN evalBegan ELSE played[k - 1].endingAt
          /\ played[k].endingAt
                = DevicePlay(played[k].s, played[k].bpm, played[k].beginAt)
          /\ played[k].s = getValue(evalArgs[played[k].arg]).notes
          /\ k > 1 => played[k - 1].arg < played[k].arg
    /\ { played[k].arg : k \in DOMAIN played } = Sequenceables
    /\ \A k \in DOMAIN warned : k > 1 => warned[k - 1] < warned[k]
    /\ { warned[k] : k \in DOMAIN warned } = Others
    /\ Len(warned) = Cardinality(Others)
    /\ evalMoment =
          IF played = <<>> THEN evalBegan ELSE played[Len(played)].endingAt

\* play, called after a second with a sequence of 2000 ms, a number and a
\* variable bound to a sequence, has played the first from 1000 ms and the
\* third from 3000 ms, has warned of the second and has returned.
C29_Witness ==
    /\ ~evalRunning
    /\ Len(evalArgs) = 3 /\ evalAt = 3
    /\ evalBegan = 1000 * Millisecond
    /\ evalBpm = 120
    /\ warned = <<2>>
    /\ Len(played) = 2
    /\ played[1].arg = 1 /\ played[1].beginAt = 1000 * Millisecond
    /\ played[1].endingAt = 3000 * Millisecond
    /\ played[2].arg = 3 /\ played[2].beginAt = 3000 * Millisecond
    /\ evalArgs[3].kind = "variable"

\* The conditions captured for pitch nr that are true now.
TrueConds(nr) ==
    { g \in conds : g.nr = nr /\ isNoteOnCount(g.nr, g.countCheck) }

\* C30: of the conditions captured for a pitch at most one is true, that of
\* a NoteOn of the pitch which no NoteOn and no NoteOff of the pitch has
\* followed; and a condition that is false is false after every step.
C30_OneTrueCondition ==
    /\ [](\A n \in ListenNotes :
            /\ Cardinality(TrueConds(MIDI(n))) <= 1
            /\ \A g \in TrueConds(MIDI(n)) :
                  /\ history[g.occ].on /\ history[g.occ].nr = MIDI(n)
                  /\ \A k \in DOMAIN history :
                        k > g.occ => history[k].nr # MIDI(n))
    /\ [][\A g \in conds :
            ~isNoteOnCount(g.nr, g.countCheck) =>
                ~isNoteOnCount(g.nr, g.countCheck)']_vars

\* A pitch was struck twice with no release between and both conditions
\* were captured: the first is false and the second true; a condition of
\* the other pitch, which was released, is false as well.
C30_Witness ==
    \E g, h, o \in conds :
        /\ g.nr = h.nr /\ g.occ < h.occ
        /\ \A k \in g.occ..h.occ : history[k].on
        /\ ~isNoteOnCount(g.nr, g.countCheck)
        /\ TrueConds(g.nr) = {h}
        /\ o.nr # g.nr
        /\ TrueConds(o.nr) = {}

\* No call of the registry, of Play or of Stop is under way.
AllReturned == \A p \in Callers : regpc[p] \in {"idle", "ended"}

\* The read loop of an input device hands its events to the Listen.
Subscribed == SubscribedOn # {}

\* Every call has returned and the Listen, which is marked stopped, is
\* subscribed, so that it is still told of NoteOn and NoteOff.
StoppedButSubscribed == AllReturned /\ ~isRunning /\ Subscribed

\* Every call has returned and the Listen, which is marked running, is not
\* subscribed.
RunningButNotSubscribed == AllReturned /\ isRunning /\ ~Subscribed

\* C31: whenever every call of Play and Stop of the Listen has returned, the
\* Listen is marked running exactly when it is among the subscribers of the
\* input device: it is neither marked stopped and subscribed nor marked
\* running and not subscribed.
C31_RunningIffSubscribed ==
    /\ ~StoppedButSubscribed
    /\ ~RunningButNotSubscribed

\* C32: no step inserts into a cache map of the registry while a range loop
\* of Reset, of Close or of the info listing over that map is under way,
\* for the loops read the map as the inserts write it, under the lock.
C32_NoInsertWhileRanging ==
    [][/\ out' # out => RangingOut = {}
       /\ inp' # inp => (RangingIn = {} /\ closepc # "stopping")]_vars

=============================================================================
